---- MODULE Spec2Model ----
(***************************************************************************)
(* Order dashboard of hubIntegrou: the OrderList view (polling, merge,    *)
(* notifications, status actions) and the OrderDetail view, as mounted    *)
(* one at a time by Dashboard.renderContent.                              *)
(***************************************************************************)
EXTENDS Integers, Sequences, FiniteSets, Bags, TLC

\* ---------------------------------------------------------------- bounds
\* order ids handed out by the modelled server: 1..MaxId
MaxId == 1
\* largest totalPages a response reports
MaxPages == 1
\* api.updateOrderStatus calls of the list in flight at once
MaxUpdating == 1
\* api.getOrders requests in flight at once
MaxInFlight == 2
\* order ids in the lists the poll merge is applied to on its own: 1..MaxMergeId
MaxMergeId == 2
\* pages and totals in the Pagination objects the setPagination updater of
\* a poll is applied to on its own: 1..MaxPollPages
MaxPollPages == 2
\* most rows handed to processData on its own
MaxRows == 3
\* most rows of an imported file
MaxFileRows == 2
\* most parseProductFile calls awaiting their outcome
MaxParsing == 1
\* most api.syncProducts calls awaiting their outcome
MaxSyncing == 1

\* ------------------------------------------------------------- constants
\* useState<string | null>(null): the null order id
NullId == 0

\* enum OrderStatus
OrderStatus ==
    {"PLC", "COM", "SPS", "SPE", "DSP", "OPA",
     "CON", "DDCS", "CAN", "CAR", "CANCELLATION_REQUESTED"}

\* the value NEXT_ACTION_MAP holds for a status without a next action
NoAction == [text |-> "null", nextStatus |-> "null"]

\* NEXT_ACTION_MAP[s] of a map that sent a dispatched order back to PLC
NEXT_ACTION_MAP_Reopening(s) ==
    CASE s = "PLC" -> [text |-> "Confirmar", nextStatus |-> "COM"]
      [] s = "COM" -> [text |-> "Concluir Separação", nextStatus |-> "SPE"]
      [] s = "SPS" -> [text |-> "Finalizar Separação", nextStatus |-> "SPE"]
      [] s = "SPE" -> [text |-> "Despachar", nextStatus |-> "DSP"]
      [] s = "DSP" -> [text |-> "Reabrir", nextStatus |-> "PLC"]
      [] OTHER -> NoAction

\* NEXT_ACTION_MAP[s]
NEXT_ACTION_MAP(s) ==
    CASE s = "PLC" -> [text |-> "Confirmar", nextStatus |-> "COM"]
      [] s = "COM" -> [text |-> "Concluir Separação", nextStatus |-> "SPE"]
      [] s = "SPS" -> [text |-> "Finalizar Separação", nextStatus |-> "SPE"]
      [] s = "SPE" -> [text |-> "Despachar", nextStatus |-> "DSP"]
      [] s = "OPA" -> NoAction
      [] s = "DSP" -> NoAction
      [] s = "CON" -> NoAction
      [] s = "DDCS" -> NoAction
      [] s = "CAN" -> NoAction
      [] s = "CAR" -> NoAction
      [] s = "CANCELLATION_REQUESTED" -> NoAction

\* ------------------------------------------------------------ environment
Ids == 1..MaxId

\* statuses the modelled server reports in list responses: one with a next
\* action and one without (the detail view is served every status)
ListServerStatuses == {"SPE", "CAN"}

\* an Order, reduced to its id, its status and one other field
MkOrder(i, s, sch) == [id |-> i, status |-> s, isScheduled |-> sch]

ListServerOrders ==
    {MkOrder(i, s, FALSE) : i \in Ids, s \in ListServerStatuses}

IdsOf(os) == {os[k].id : k \in DOMAIN os}

DistinctIds(os) == \A a, b \in DOMAIN os : os[a].id = os[b].id => a = b

\* order arrays a getOrders response can carry: pairwise distinct ids
OrderLists ==
    {os \in UNION {[1..n -> ListServerOrders] : n \in 0..MaxId} : DistinctIds(os)}

NoPagination == [currentPage |-> 0, totalPages |-> 0, total |-> 0]

\* Pagination objects a response to a request for page p can carry; the
\* modelled server reports one order per page
Paginations(p) ==
    {[currentPage |-> p, totalPages |-> tp, total |-> tp] : tp \in 1..MaxPages}

\* OrderFilters the filter panel produces here: a date range, no custom
\* dates ("" stands for an absent field)
DateRanges == {"today", "week"}
PerPages == {10}
FilterValues ==
    [dateRange : DateRanges, dateFrom : {""}, dateTo : {""}, perPage : PerPages]
defaultFilters == [dateRange |-> "today", dateFrom |-> "", dateTo |-> "", perPage |-> 10]

\* the preset periods of the filter panel, the values typed into its date
\* inputs and the options of the per-page select used here
PanelDateRanges == {"today", "week"}
PanelDates == {"", "2024-01-01"}
PanelPerPages == {10, 25}

FetchReq(p) == [kind |-> "fetch", page |-> p, isMuted |-> FALSE]
PollReq(m) == [kind |-> "poll", page |-> 1, isMuted |-> m]

NoOrder == MkOrder(NullId, "null", FALSE)

\* orders the server can return for the detail view: every status
DetailServerOrders(i) ==
    {MkOrder(i, s, sch) : s \in OrderStatus, sch \in BOOLEAN}

NoCall == [order |-> NoOrder, nextStatus |-> "null"]

\* ------------------------------------------------------------------ state
VARIABLES
    selectedOrderId,     \* Dashboard: NullId while the list is shown
    hidden,              \* document.hidden
    \* OrderList
    orders, pagination, isLoading, error, updatingOrderIds,
    justUpdatedOrderId, filters, isMuted, newOrderIds,
    inflight,            \* bag of api.getOrders requests awaiting their outcome
    updatesInFlight,     \* api.updateOrderStatus calls of handleActionClick awaiting their outcome
    \* OrderDetail
    order, detailIsLoading, isActionLoading, detailError,
    detailCall,          \* the api.updateOrderStatus call of handleAction awaiting its outcome
    \* observation
    plays,               \* audio.play() calls made by the last step
    cuedIds,             \* ids announced by a sound since the list was mounted
    alerts,              \* alert() calls made by the last step
    trail,               \* statuses the detail order has shown since it was loaded
    \* the setOrders updater of pollForNewOrders, applied on its own
    mergeCurrent, mergeFetched, mergeResult, mergeDone,
    \* OrderList: the filter panel and the polling interval
    tempFilters, showFilters, isPollingActive,
    tempIsApplied,       \* tempFilters and filters hold the same object
    intervals,           \* setInterval timers of the polling effect not yet cleared
    \* pollFilters and the setPagination updater of pollForNewOrders, applied
    \* on their own
    pollApplied, pollPrev, pollFetched, pollRequest, pollResult, pollDone,
    \* InterruptionsModal
    imDescription, imStart, imEnd, imIsLoading, imError,
    imCall,              \* the api.createInterruption call awaiting its outcome
    imSaved,             \* onSaveSuccess calls made by the last step
    \* SyncProductsModal and its ManualAddForm
    isSyncModalOpen, syncQueue, isReset, isSyncing, syncError, importMessage,
    isParsing, manualProduct,
    formError,           \* the error state of ManualAddForm
    parsing,             \* parseProductFile calls awaiting their outcome, each
                         \* with the syncQueue its handleFileChange closed over
    syncing,             \* api.syncProducts calls awaiting their outcome
    apiSyncCalls,        \* api.syncProducts calls made by the last step
    confirmAnswer,       \* the answer to window.confirm in the last step
    syncCompleted,       \* onSyncComplete calls made by the last step
    syncClosed,          \* onClose calls made by the last step
    \* processData applied on its own
    pdData, pdResult, pdDone,
    \* LoginPage
    lpMounted,           \* the App renders LoginPage
    lpEmail, lpPassword, lpError, lpIsLoading, isRegisterMode, cnpj, lpName,
    passwordConfirmation,
    lpCall,              \* the API call of handleSubmit awaiting its outcome
    lpApiCall,           \* the API function called by the last step
    lpLogins,            \* onLogin calls made by the last step
    lpSubmitLogins,      \* onLogin calls made since the last submit began
    \* App
    user, appIsLoading,
    hasToken,            \* localStorage holds a token
    getMePending,        \* the api.getMe call of checkSession awaits its outcome
    logoutCalls          \* api.logout calls made since the user was last set

listVars ==
    <<orders, pagination, isLoading, error, updatingOrderIds, justUpdatedOrderId,
      filters, isMuted, newOrderIds, inflight, updatesInFlight>>
detailVars == <<order, detailIsLoading, isActionLoading, detailError, detailCall, trail>>
obsVars == <<plays, cuedIds, alerts>>
mergeVars == <<mergeCurrent, mergeFetched, mergeResult, mergeDone>>
panelVars == <<tempFilters, showFilters, isPollingActive, tempIsApplied, intervals>>
\* state of the other components
pollPageVars == <<pollApplied, pollPrev, pollFetched, pollRequest, pollResult, pollDone>>
interruptionVars ==
    <<imDescription, imStart, imEnd, imIsLoading, imError, imCall, imSaved>>
syncVars ==
    <<isSyncModalOpen, syncQueue, isReset, isSyncing, syncError, importMessage,
      isParsing, manualProduct, formError, parsing, syncing, apiSyncCalls,
      confirmAnswer, syncCompleted, syncClosed>>
parserVars == <<pdData, pdResult, pdDone>>
\* state of the products page and the login page
loginVars ==
    <<lpMounted, lpEmail, lpPassword, lpError, lpIsLoading, isRegisterMode, cnpj,
      lpName, passwordConfirmation, lpCall, lpApiCall, lpLogins, lpSubmitLogins>>
appVars == <<user, appIsLoading, hasToken, getMePending, logoutCalls>>
pageVars == <<syncVars, parserVars, loginVars, appVars>>
componentVars == <<mergeVars, pollPageVars, interruptionVars, pageVars>>
\* state an action of the list or the detail view leaves alone unless it
\* names it
otherVars == <<componentVars, panelVars>>
\* state of the dashboard's order views
dashboardVars == <<selectedOrderId, hidden, listVars, detailVars, obsVars, panelVars>>
vars == <<selectedOrderId, hidden, listVars, detailVars, obsVars, otherVars>>

ListMounted == selectedOrderId = NullId
DetailMounted == selectedOrderId # NullId

\* ------------------------------------------------------- render conditions
\* OrderList renders its main view (audio element, header buttons)
MainView == ~(isLoading /\ Len(orders) = 0) /\ error = "null"
\* the order cards are rendered
ListShown == MainView /\ ~isLoading
\* PaginationControls is rendered
PagerShown == MainView /\ ~isLoading /\ pagination # NoPagination
\* OrderDetail renders the order and its action button
DetailShown == ~detailIsLoading /\ detailError = "null" /\ order # NoOrder

\* a hidden document receives no clicks
UserCanAct == ~hidden

\* the polling interval is installed
ShouldPoll(f) ==
    /\ f.dateRange = "today" \/ f.dateRange = ""
    /\ f.dateFrom = ""
    /\ f.dateTo = ""

\* ------------------------------------------------------------- poll merge
\* fetchedOrdersMap.get(id): the last fetched order with that id
FetchedGet(fetched, id) ==
    fetched[CHOOSE k \in DOMAIN fetched :
                /\ fetched[k].id = id
                /\ \A j \in DOMAIN fetched : fetched[j].id = id => j <= k]

\* the map callback's test: the fetched order replaces the current one
Replaces(cur, fetched, k) ==
    /\ cur[k].id \in IdsOf(fetched)
    /\ FetchedGet(fetched, cur[k].id).status # cur[k].status

\* a map callback that took the fetched order whenever the ids are equal
updatedOrdersById(cur, fetched) ==
    [k \in DOMAIN cur |->
        IF cur[k].id \in IdsOf(fetched) THEN FetchedGet(fetched, cur[k].id) ELSE cur[k]]

updatedOrders(cur, fetched) ==
    [k \in DOMAIN cur |->
        IF Replaces(cur, fetched, k) THEN FetchedGet(fetched, cur[k].id) ELSE cur[k]]

IsNewOrder(cur, o) == o.id \notin IdsOf(cur)

\* every fetched order taken as new
allFetched(cur, fetched) == fetched

newOrders(cur, fetched) == SelectSeq(fetched, LAMBDA o : IsNewOrder(cur, o))

hasChanged(cur, fetched) ==
    \/ \E k \in DOMAIN cur : Replaces(cur, fetched, k)
    \/ Len(newOrders(cur, fetched)) > 0

\* the setOrders updater of pollForNewOrders
MergeOrders(cur, fetched) ==
    IF hasChanged(cur, fetched)
    THEN newOrders(cur, fetched) \o updatedOrders(cur, fetched)
    ELSE cur

\* the id left in justUpdatedOrderId by the updater: the last replaced order's
MergeJustUpdated(cur, fetched, prev) ==
    LET ks == {k \in DOMAIN cur : Replaces(cur, fetched, k)}
    IN IF ks = {} THEN prev
       ELSE cur[CHOOSE k \in ks : \A j \in ks : j <= k].id

\* pollFilters: { ...filters, dateRange: 'today', page: 1 }
pollFilters(f) ==
    [x \in DOMAIN f \cup {"dateRange", "page"} |->
        IF x = "page" THEN 1 ELSE IF x = "dateRange" THEN "today" ELSE f[x]]

\* applied filters under which the interval polls, with a search term and a
\* status filter
PollableFilters ==
    [searchTerm : {"", "ana"}, status : {"", "PLC"}, dateRange : {"today", ""},
     dateFrom : {""}, dateTo : {""}, perPage : PanelPerPages]

\* Pagination objects with every field, as stored or as polled
FullPaginations ==
    [currentPage : 1..MaxPollPages, perPage : PanelPerPages,
     total : 1..MaxPollPages, totalPages : 1..MaxPollPages]

\* a setPagination updater that took the polled object as it is
MergePaginationWholesale(prev, fetchedPagination) ==
    IF prev # NoPagination /\ prev.total # fetchedPagination.total
    THEN fetchedPagination
    ELSE prev

\* the setPagination updater of pollForNewOrders
MergePagination(prev, fetchedPagination) ==
    IF prev # NoPagination /\ prev.total # fetchedPagination.total
    THEN [fetchedPagination EXCEPT !.currentPage = prev.currentPage]
    ELSE prev

\* order arrays the updater is applied to: pairwise distinct ids, orders that
\* agree or differ in status and in another field
MergeLists ==
    LET os == {MkOrder(i, st, sch) :
                  i \in 1..MaxMergeId, st \in ListServerStatuses, sch \in BOOLEAN}
    IN {l \in UNION {[1..n -> os] : n \in 0..MaxMergeId} : DistinctIds(l)}

\* the test guarding audioRef.current.play(): the muted flag the callback
\* closed over, and the audio element being mounted
PlaysSound(capturedMuted) == ~capturedMuted /\ MainView

\* ------------------------------------------------------- polling interval
\* an interval effect that returned no cleanup
IntervalsWithoutCleanup(n, f, g) == n + IF ShouldPoll(g) THEN 1 ELSE 0

\* the interval effect re-run for filters g after it ran for filters f: the
\* cleanup the earlier run returned, then the body
IntervalsAfterEffect(n, f, g) ==
    (n - IF ShouldPoll(f) THEN 1 ELSE 0) + IF ShouldPoll(g) THEN 1 ELSE 0

\* the interval effect after a render with filters g
PollingEffect(g) ==
    /\ intervals' = IntervalsAfterEffect(intervals, filters, g)
    /\ isPollingActive' = ShouldPoll(g)

\* ------------------------------------------------------------ mount/unmount
\* state of a view that is not mounted
ListReset(requests) ==
    /\ orders' = <<>>
    /\ pagination' = NoPagination
    /\ isLoading' = TRUE
    /\ error' = "null"
    /\ updatingOrderIds' = {}
    /\ justUpdatedOrderId' = NullId
    /\ filters' = defaultFilters
    /\ newOrderIds' = {}
    /\ inflight' = requests
    /\ updatesInFlight' = {}
    /\ cuedIds' = {}
    /\ tempFilters' = defaultFilters
    /\ tempIsApplied' = TRUE
    /\ showFilters' = FALSE

DetailUnmounted ==
    /\ order' = NoOrder
    /\ detailIsLoading' = TRUE
    /\ isActionLoading' = FALSE
    /\ detailError' = "null"
    /\ detailCall' = NoCall
    /\ trail' = <<>>

\* OrderList's first render and its mount effects: the useState initial
\* values, fetchOrders(filters, 1) and the polling interval
OrderListMount ==
    /\ ListReset(SetToBag({FetchReq(1)}))
    /\ intervals' = IF ShouldPoll(defaultFilters) THEN 1 ELSE 0
    /\ isPollingActive' = ShouldPoll(defaultFilters)

\* the unmount runs the cleanup of the interval effect
ListUnmounted ==
    /\ ListReset(EmptyBag)
    /\ intervals' = 0
    /\ isPollingActive' = FALSE

\* what a step does outside the component state
Effects(p, a) ==
    /\ plays' = p
    /\ alerts' = a

\* ------------------------------------------------------------- OrderList
\* fetchOrders(appliedFilters, page) up to its await
StartFetch(p) ==
    /\ BagCardinality(inflight) < MaxInFlight
    /\ isLoading' = TRUE
    /\ error' = "null"
    /\ inflight' = inflight (+) SetToBag({FetchReq(p)})

\* a fetchOrders that called setError(null) again once the data arrived
FetchResolveClearingError ==
    /\ ListMounted
    /\ \E r \in BagToSet(inflight) :
        /\ r.kind = "fetch"
        /\ \E fetchedOrders \in OrderLists, fetchedPagination \in Paginations(r.page) :
            /\ orders' = fetchedOrders
            /\ pagination' = fetchedPagination
        /\ isLoading' = FALSE
        /\ inflight' = inflight (-) SetToBag({r})
    /\ error' = "null"
    /\ Effects(0, 0)
    /\ UNCHANGED <<otherVars, selectedOrderId, hidden, updatingOrderIds, justUpdatedOrderId,
                   filters, isMuted, newOrderIds, updatesInFlight, cuedIds,
                   detailVars>>

\* fetchOrders after api.getOrders resolved
FetchResolve ==
    /\ ListMounted
    /\ \E r \in BagToSet(inflight) :
        /\ r.kind = "fetch"
        /\ \E fetchedOrders \in OrderLists, fetchedPagination \in Paginations(r.page) :
            /\ orders' = fetchedOrders
            /\ pagination' = fetchedPagination
        /\ isLoading' = FALSE
        /\ inflight' = inflight (-) SetToBag({r})
    /\ Effects(0, 0)
    /\ UNCHANGED <<otherVars, selectedOrderId, hidden, error, updatingOrderIds, justUpdatedOrderId,
                   filters, isMuted, newOrderIds, updatesInFlight, cuedIds,
                   detailVars>>

\* a catch block of fetchOrders that also emptied the list
FetchRejectClearingList ==
    /\ ListMounted
    /\ \E r \in BagToSet(inflight) :
        /\ r.kind = "fetch"
        /\ inflight' = inflight (-) SetToBag({r})
    /\ error' = "Falha ao carregar pedidos."
    /\ isLoading' = FALSE
    /\ orders' = <<>>
    /\ pagination' = NoPagination
    /\ Effects(0, 0)
    /\ UNCHANGED <<otherVars, selectedOrderId, hidden, updatingOrderIds,
                   justUpdatedOrderId, filters, isMuted, newOrderIds, updatesInFlight,
                   cuedIds, detailVars>>

\* fetchOrders after api.getOrders rejected
FetchReject ==
    /\ ListMounted
    /\ \E r \in BagToSet(inflight) :
        /\ r.kind = "fetch"
        /\ inflight' = inflight (-) SetToBag({r})
    /\ error' = "Falha ao carregar pedidos."
    /\ isLoading' = FALSE
    /\ Effects(0, 0)
    /\ UNCHANGED <<otherVars, selectedOrderId, hidden, orders, pagination, updatingOrderIds,
                   justUpdatedOrderId, filters, isMuted, newOrderIds, updatesInFlight,
                   cuedIds, detailVars>>

\* a pollForNewOrders without the document.hidden test
NeverSkipsPoll == FALSE

\* the document.hidden test of pollForNewOrders
SkipsPoll == hidden

\* one tick of setInterval(pollForNewOrders, 5000), up to the await
PollTick ==
    /\ ListMounted
    /\ intervals > 0
    /\ IF SkipsPoll
       THEN UNCHANGED inflight
       ELSE /\ BagCardinality(inflight) < MaxInFlight
            /\ inflight' = inflight (+) SetToBag({PollReq(isMuted)})
    /\ Effects(0, 0)
    /\ UNCHANGED <<otherVars, selectedOrderId, hidden, orders, pagination, isLoading, error,
                   updatingOrderIds, justUpdatedOrderId, filters, isMuted, newOrderIds,
                   updatesInFlight, cuedIds, detailVars>>

\* pollForNewOrders after api.getOrders resolved: both updaters
PollResolve ==
    /\ ListMounted
    /\ \E r \in BagToSet(inflight) :
        /\ r.kind = "poll"
        /\ inflight' = inflight (-) SetToBag({r})
        /\ \E fetchedOrders \in OrderLists, fetchedPagination \in Paginations(1) :
            LET fresh == IdsOf(newOrders(orders, fetchedOrders))
                sound == fresh # {} /\ PlaysSound(r.isMuted)
            IN /\ orders' = MergeOrders(orders, fetchedOrders)
               /\ justUpdatedOrderId' =
                      MergeJustUpdated(orders, fetchedOrders, justUpdatedOrderId)
               /\ newOrderIds' = newOrderIds \cup fresh
               /\ pagination' = MergePagination(pagination, fetchedPagination)
               /\ Effects(IF sound THEN 1 ELSE 0, 0)
               /\ cuedIds' = IF sound THEN cuedIds \cup fresh ELSE cuedIds
    /\ UNCHANGED <<otherVars, selectedOrderId, hidden, isLoading, error, updatingOrderIds,
                   filters, isMuted, updatesInFlight, detailVars>>

\* a catch block of pollForNewOrders that called setError
PollRejectShowingError ==
    /\ ListMounted
    /\ \E r \in BagToSet(inflight) :
        /\ r.kind = "poll"
        /\ inflight' = inflight (-) SetToBag({r})
    /\ error' = "Falha ao carregar pedidos."
    /\ Effects(0, 0)
    /\ UNCHANGED <<otherVars, selectedOrderId, hidden, orders, pagination, isLoading,
                   updatingOrderIds, justUpdatedOrderId, filters, isMuted, newOrderIds,
                   updatesInFlight, cuedIds, detailVars>>

\* pollForNewOrders after api.getOrders rejected: console.error only
PollReject ==
    /\ ListMounted
    /\ \E r \in BagToSet(inflight) :
        /\ r.kind = "poll"
        /\ inflight' = inflight (-) SetToBag({r})
    /\ Effects(0, 0)
    /\ UNCHANGED <<otherVars, selectedOrderId, hidden, orders, pagination, isLoading, error,
                   updatingOrderIds, justUpdatedOrderId, filters, isMuted, newOrderIds,
                   updatesInFlight, cuedIds, detailVars>>

\* setTimeout(() => setJustUpdatedOrderId(null), 1500)
JustUpdatedTimeout ==
    /\ ListMounted
    /\ justUpdatedOrderId # NullId
    /\ justUpdatedOrderId' = NullId
    /\ Effects(0, 0)
    /\ UNCHANGED <<otherVars, selectedOrderId, hidden, orders, pagination, isLoading, error,
                   updatingOrderIds, filters, isMuted, newOrderIds, inflight,
                   updatesInFlight, cuedIds, detailVars>>

\* the mute button: setIsMuted(!isMuted)
ToggleMute ==
    /\ UserCanAct
    /\ ListMounted
    /\ MainView
    /\ isMuted' = ~isMuted
    /\ PollingEffect(filters)
    /\ Effects(0, 0)
    /\ UNCHANGED <<componentVars, tempFilters, tempIsApplied, showFilters,
                   selectedOrderId, hidden, orders, pagination, isLoading, error, updatingOrderIds,
                   justUpdatedOrderId, filters, newOrderIds, inflight,
                   updatesInFlight, cuedIds, detailVars>>

\* handleRefresh
HandleRefresh ==
    /\ UserCanAct
    /\ ListMounted
    /\ MainView
    /\ StartFetch(IF pagination # NoPagination /\ pagination.currentPage # 0
                  THEN pagination.currentPage ELSE 1)
    /\ Effects(0, 0)
    /\ UNCHANGED <<otherVars, selectedOrderId, hidden, orders, pagination, updatingOrderIds,
                   justUpdatedOrderId, filters, isMuted, newOrderIds, updatesInFlight,
                   cuedIds, detailVars>>

\* handlePageChange(newPage)
HandlePageChange ==
    /\ UserCanAct
    /\ ListMounted
    /\ PagerShown
    /\ \E newPage \in 0..(MaxPages + 1) :
        IF newPage >= 1 /\ newPage <= pagination.totalPages
        THEN /\ StartFetch(newPage)
             /\ Effects(0, 0)
        ELSE /\ Effects(0, 0)
             /\ UNCHANGED <<isLoading, error, inflight>>
    /\ UNCHANGED <<otherVars, selectedOrderId, hidden, orders, pagination, updatingOrderIds,
                   justUpdatedOrderId, filters, isMuted, newOrderIds, updatesInFlight,
                   cuedIds, detailVars>>

\* handleApplyFilters, handleClearFilters and the per-page select: setFilters
\* with a new object, then the effect fetchOrders(filters, 1)
ChangeFilters ==
    /\ UserCanAct
    /\ ListMounted
    /\ MainView
    /\ \E f \in FilterValues :
        /\ filters' = f
        /\ tempFilters' = f
        /\ tempIsApplied' = TRUE
        /\ PollingEffect(f)
    /\ showFilters' = FALSE
    /\ StartFetch(1)
    /\ Effects(0, 0)
    /\ UNCHANGED <<componentVars, selectedOrderId, hidden, orders, pagination,
                   updatingOrderIds, justUpdatedOrderId, isMuted, newOrderIds,
                   updatesInFlight, cuedIds, detailVars>>

\* the filter button: setTempFilters(filters), setShowFilters(!showFilters)
ToggleFilterPanel ==
    /\ UserCanAct
    /\ ListMounted
    /\ MainView
    /\ tempFilters' = filters
    /\ tempIsApplied' = TRUE
    /\ showFilters' = ~showFilters
    /\ Effects(0, 0)
    /\ UNCHANGED <<componentVars, isPollingActive, intervals, selectedOrderId, hidden,
                   listVars, cuedIds, detailVars>>

\* FilterPanel.handleDateRangeClick(range)
HandleDateRangeClick ==
    /\ UserCanAct
    /\ ListMounted
    /\ MainView
    /\ showFilters
    /\ \E range \in PanelDateRanges :
        tempFilters' = [tempFilters EXCEPT
                           !.dateRange = IF tempFilters.dateRange = range THEN "" ELSE range,
                           !.dateFrom = "",
                           !.dateTo = ""]
    /\ tempIsApplied' = FALSE
    /\ Effects(0, 0)
    /\ UNCHANGED <<componentVars, showFilters, isPollingActive, intervals,
                   selectedOrderId, hidden, listVars, cuedIds, detailVars>>

\* a handleDateInputChange that left the preset alone
HandleDateInputChangeKeepingRange ==
    /\ UserCanAct
    /\ ListMounted
    /\ MainView
    /\ showFilters
    /\ \E field \in {"dateFrom", "dateTo"}, value \in PanelDates :
        tempFilters' = [tempFilters EXCEPT ![field] = value]
    /\ tempIsApplied' = FALSE
    /\ Effects(0, 0)
    /\ UNCHANGED <<componentVars, showFilters, isPollingActive, intervals,
                   selectedOrderId, hidden, listVars, cuedIds, detailVars>>

\* FilterPanel.handleDateInputChange(field, value)
HandleDateInputChange ==
    /\ UserCanAct
    /\ ListMounted
    /\ MainView
    /\ showFilters
    /\ \E field \in {"dateFrom", "dateTo"}, value \in PanelDates :
        tempFilters' = [[tempFilters EXCEPT ![field] = value] EXCEPT !.dateRange = ""]
    /\ tempIsApplied' = FALSE
    /\ Effects(0, 0)
    /\ UNCHANGED <<componentVars, showFilters, isPollingActive, intervals,
                   selectedOrderId, hidden, listVars, cuedIds, detailVars>>

\* a render with a new filters object g: the effect fetchOrders(filters, 1)
\* and the interval effect
FiltersChanged(g) ==
    /\ filters' = g
    /\ StartFetch(1)
    /\ PollingEffect(g)

\* handleApplyFilters: setFilters(tempFilters) changes nothing when filters
\* already holds that object
HandleApplyFilters ==
    /\ UserCanAct
    /\ ListMounted
    /\ MainView
    /\ showFilters
    /\ IF tempIsApplied
       THEN UNCHANGED <<filters, isLoading, error, inflight, intervals, isPollingActive>>
       ELSE FiltersChanged(tempFilters)
    /\ tempIsApplied' = TRUE
    /\ showFilters' = FALSE
    /\ Effects(0, 0)
    /\ UNCHANGED <<componentVars, tempFilters, selectedOrderId, hidden, orders,
                   pagination, updatingOrderIds, justUpdatedOrderId, isMuted,
                   newOrderIds, updatesInFlight, cuedIds, detailVars>>

\* the object handleClearFilters builds
cleared(temp) ==
    [perPage |-> IF temp.perPage # 0 THEN temp.perPage ELSE 10,
     dateRange |-> "today", dateFrom |-> "", dateTo |-> ""]

\* handleClearFilters
HandleClearFilters ==
    /\ UserCanAct
    /\ ListMounted
    /\ MainView
    /\ showFilters
    /\ tempFilters' = cleared(tempFilters)
    /\ FiltersChanged(cleared(tempFilters))
    /\ tempIsApplied' = TRUE
    /\ showFilters' = FALSE
    /\ Effects(0, 0)
    /\ UNCHANGED <<componentVars, selectedOrderId, hidden, orders, pagination,
                   updatingOrderIds, justUpdatedOrderId, isMuted, newOrderIds,
                   updatesInFlight, cuedIds, detailVars>>

\* the per-page select: setFilters(prev => ({ ...prev, perPage, page: 1 }))
HandlePerPageChange ==
    /\ UserCanAct
    /\ ListMounted
    /\ MainView
    /\ \E n \in PanelPerPages : FiltersChanged([filters EXCEPT !.perPage = n])
    /\ tempIsApplied' = FALSE
    /\ Effects(0, 0)
    /\ UNCHANGED <<componentVars, tempFilters, showFilters, selectedOrderId, hidden,
                   orders, pagination, updatingOrderIds, justUpdatedOrderId, isMuted,
                   newOrderIds, updatesInFlight, cuedIds, detailVars>>

\* OrderCard.handleActionClick's test of NEXT_ACTION_MAP[order.status]
HasNextAction(o) == NEXT_ACTION_MAP(o.status) # NoAction

\* a handler that handed the order's current status to api.updateOrderStatus
CurrentStatusOf(o) == o.status

\* the status handed to api.updateOrderStatus
NextStatusOf(o) == NEXT_ACTION_MAP(o.status).nextStatus

\* OrderCard.handleActionClick on the k-th card, then
\* OrderList.handleActionClick up to its await
CardActionClickOn(k) ==
    /\ UserCanAct
    /\ ListMounted
    /\ ListShown
    /\ k \in DOMAIN orders
    /\ IF HasNextAction(orders[k])
       THEN /\ orders[k].id \notin updatingOrderIds
            /\ Cardinality(updatesInFlight) < MaxUpdating
            /\ updatingOrderIds' = updatingOrderIds \cup {orders[k].id}
            /\ updatesInFlight' =
                   updatesInFlight \cup
                       {[order |-> orders[k], nextStatus |-> NextStatusOf(orders[k])]}
       ELSE UNCHANGED <<updatingOrderIds, updatesInFlight>>
    /\ Effects(0, 0)
    /\ UNCHANGED <<otherVars, selectedOrderId, hidden, orders, pagination, isLoading,
                   error, justUpdatedOrderId, filters, isMuted, newOrderIds, inflight,
                   cuedIds, detailVars>>

CardActionClick == \E k \in 1..MaxId : CardActionClickOn(k)

\* the order written by a resolved update: { ...order, status: nextStatus }
UpdatedOrder(u) == [u.order EXCEPT !.status = u.nextStatus]

\* handleActionClick without its finally block
WithoutFinally(ids, u) == ids

\* updatingOrderIds after the finally block of handleActionClick
AfterUpdate(ids, u) == ids \ {u.order.id}

\* handleActionClick after api.updateOrderStatus resolved
UpdateResolve ==
    /\ ListMounted
    /\ \E u \in updatesInFlight :
        /\ orders' = [k \in DOMAIN orders |->
                        IF orders[k].id = u.order.id THEN UpdatedOrder(u) ELSE orders[k]]
        /\ justUpdatedOrderId' = u.order.id
        /\ updatingOrderIds' = AfterUpdate(updatingOrderIds, u)
        /\ updatesInFlight' = updatesInFlight \ {u}
    /\ Effects(0, 0)
    /\ UNCHANGED <<otherVars, selectedOrderId, hidden, pagination, isLoading, error, filters,
                   isMuted, newOrderIds, inflight, cuedIds, detailVars>>

\* handleActionClick after api.updateOrderStatus rejected
UpdateReject ==
    /\ ListMounted
    /\ \E u \in updatesInFlight :
        /\ updatingOrderIds' = AfterUpdate(updatingOrderIds, u)
        /\ updatesInFlight' = updatesInFlight \ {u}
    /\ Effects(0, 1)
    /\ UNCHANGED <<otherVars, selectedOrderId, hidden, orders, pagination, isLoading, error,
                   justUpdatedOrderId, filters, isMuted, newOrderIds, inflight,
                   cuedIds, detailVars>>

\* handleSelectAndMarkAsViewed and Dashboard.handleSelectOrder: OrderDetail
\* replaces OrderList, whose state and pending callbacks are dropped
SelectOrder ==
    /\ UserCanAct
    /\ ListMounted
    /\ ListShown
    /\ \E k \in DOMAIN orders : selectedOrderId' = orders[k].id
    /\ ListUnmounted
    /\ DetailUnmounted
    /\ Effects(0, 0)
    /\ UNCHANGED <<componentVars, hidden, isMuted>>

\* ------------------------------------------------------------ OrderDetail
\* fetchOrder after api.getOrderById resolved
DetailFetchResolve ==
    /\ DetailMounted
    /\ detailIsLoading
    /\ \E o \in DetailServerOrders(selectedOrderId) :
        /\ order' = o
        /\ trail' = <<o.status>>
    /\ detailIsLoading' = FALSE
    /\ Effects(0, 0)
    /\ UNCHANGED <<otherVars, selectedOrderId, hidden, listVars, isActionLoading, detailError,
                   detailCall, cuedIds>>

\* fetchOrder after api.getOrderById rejected
DetailFetchReject ==
    /\ DetailMounted
    /\ detailIsLoading
    /\ detailError' = "Falha ao carregar detalhes do pedido."
    /\ detailIsLoading' = FALSE
    /\ Effects(0, 0)
    /\ UNCHANGED <<otherVars, selectedOrderId, hidden, listVars, order, isActionLoading,
                   detailCall, trail, cuedIds>>

\* a handleAction that wrote nextStatus to the order before awaiting the call
HandleActionOptimistic ==
    /\ UserCanAct
    /\ DetailMounted
    /\ DetailShown
    /\ ~isActionLoading
    /\ IF NEXT_ACTION_MAP(order.status) # NoAction
       THEN /\ isActionLoading' = TRUE
            /\ detailCall' =
                   [order |-> order, nextStatus |-> NEXT_ACTION_MAP(order.status).nextStatus]
            /\ order' = [order EXCEPT !.status = NEXT_ACTION_MAP(order.status).nextStatus]
       ELSE UNCHANGED <<isActionLoading, detailCall, order>>
    /\ Effects(0, 0)
    /\ UNCHANGED <<otherVars, selectedOrderId, hidden, listVars, detailIsLoading,
                   detailError, trail, cuedIds>>

\* handleAction up to its await
HandleAction ==
    /\ UserCanAct
    /\ DetailMounted
    /\ DetailShown
    /\ ~isActionLoading
    /\ IF HasNextAction(order)
       THEN /\ isActionLoading' = TRUE
            /\ detailCall' = [order |-> order, nextStatus |-> NextStatusOf(order)]
       ELSE UNCHANGED <<isActionLoading, detailCall>>
    /\ Effects(0, 0)
    /\ UNCHANGED <<otherVars, selectedOrderId, hidden, listVars, order, detailIsLoading,
                   detailError, trail, cuedIds>>

\* handleAction after api.updateOrderStatus resolved
DetailUpdateResolve ==
    /\ DetailMounted
    /\ isActionLoading
    /\ order' = [order EXCEPT !.status = detailCall.nextStatus]
    /\ trail' = Append(trail, detailCall.nextStatus)
    /\ isActionLoading' = FALSE
    /\ detailCall' = NoCall
    /\ Effects(0, 0)
    /\ UNCHANGED <<otherVars, selectedOrderId, hidden, listVars, detailIsLoading, detailError,
                   cuedIds>>

\* handleAction after api.updateOrderStatus rejected
DetailUpdateReject ==
    /\ DetailMounted
    /\ isActionLoading
    /\ detailError' = "Falha ao atualizar o status do pedido."
    /\ isActionLoading' = FALSE
    /\ detailCall' = NoCall
    /\ Effects(0, 0)
    /\ UNCHANGED <<otherVars, selectedOrderId, hidden, listVars, order, detailIsLoading, trail,
                   cuedIds>>

\* onBack (Dashboard.handleBackToList): OrderList is mounted afresh
BackToList ==
    /\ UserCanAct
    /\ DetailMounted
    /\ selectedOrderId' = NullId
    /\ DetailUnmounted
    /\ OrderListMount
    /\ Effects(0, 0)
    /\ UNCHANGED <<componentVars, hidden, isMuted>>

\* the browser tab is hidden or shown again
VisibilityChange ==
    /\ hidden' = ~hidden
    /\ Effects(0, 0)
    /\ UNCHANGED <<otherVars, selectedOrderId, listVars, detailVars, cuedIds>>

\* the setOrders updater of pollForNewOrders applied to one pair of lists
ApplyMerge ==
    /\ ~mergeDone
    /\ mergeResult' = MergeOrders(mergeCurrent, mergeFetched)
    /\ mergeDone' = TRUE
    /\ UNCHANGED <<mergeCurrent, mergeFetched, pollPageVars, interruptionVars,
                   pageVars, dashboardVars>>

\* pollFilters and the setPagination updater of pollForNewOrders applied to
\* one choice of applied filters, stored pagination and polled pagination
ApplyPollPage ==
    /\ ~pollDone
    /\ pollRequest' = pollFilters(pollApplied)
    /\ pollResult' = MergePagination(pollPrev, pollFetched)
    /\ pollDone' = TRUE
    /\ UNCHANGED <<pollApplied, pollPrev, pollFetched, mergeVars, interruptionVars,
                   pageVars, dashboardVars>>

\* ----------------------------------------------------- InterruptionsModal
\* values typed into the description input
ImDescriptions == {"", "Feriado"}

\* values of the datetime-local inputs; "" is an input left empty
ImDateInputs == {"", "2024-05-01T10:00", "2024-05-01T18:30", "2024-05-02T08:00"}

\* new Date(s).getTime() of a datetime-local value, in minutes from
\* 2024-05-01T00:00
DateValue(s) ==
    CASE s = "2024-05-01T10:00" -> 600
      [] s = "2024-05-01T18:30" -> 1110
      [] s = "2024-05-02T08:00" -> 1920

\* err.message of a rejected api.createInterruption; "" is an error without
\* a message
ImErrorMessages == {"", "Erro interno do servidor"}

NoInterruption == [description |-> "", start |-> 0, end |-> 0]

\* a test that let a start equal to the end pass
StartAfterEnd(st, en) == DateValue(st) > DateValue(en)

\* the test `new Date(start) >= new Date(end)` of handleSave
StartNotBeforeEnd(st, en) == DateValue(st) >= DateValue(en)

\* everything but the modal
exceptInterruption == <<dashboardVars, mergeVars, pollPageVars, pageVars>>

\* onChange of the description input
ImSetDescription ==
    /\ \E v \in ImDescriptions : imDescription' = v
    /\ imSaved' = 0
    /\ UNCHANGED <<imStart, imEnd, imIsLoading, imError, imCall, exceptInterruption>>

\* onChange of the start input
ImSetStart ==
    /\ \E v \in ImDateInputs : imStart' = v
    /\ imSaved' = 0
    /\ UNCHANGED <<imDescription, imEnd, imIsLoading, imError, imCall,
                   exceptInterruption>>

\* onChange of the end input
ImSetEnd ==
    /\ \E v \in ImDateInputs : imEnd' = v
    /\ imSaved' = 0
    /\ UNCHANGED <<imDescription, imStart, imIsLoading, imError, imCall,
                   exceptInterruption>>

\* handleSave up to its await; the submit button is disabled while loading
ImHandleSave ==
    /\ ~imIsLoading
    /\ IF imDescription = "" \/ imStart = "" \/ imEnd = ""
       THEN /\ imError' = "Todos os campos são obrigatórios."
            /\ UNCHANGED <<imIsLoading, imCall>>
       ELSE IF StartNotBeforeEnd(imStart, imEnd)
       THEN /\ imError' = "A data de início deve ser anterior à data de fim."
            /\ UNCHANGED <<imIsLoading, imCall>>
       ELSE /\ imError' = "null"
            /\ imIsLoading' = TRUE
            /\ imCall' = [description |-> imDescription,
                          start |-> DateValue(imStart),
                          end |-> DateValue(imEnd)]
    /\ imSaved' = 0
    /\ UNCHANGED <<imDescription, imStart, imEnd, exceptInterruption>>

\* handleSave after api.createInterruption resolved: resetState, onSaveSuccess
ImSaveResolve ==
    /\ imCall # NoInterruption
    /\ imDescription' = ""
    /\ imStart' = ""
    /\ imEnd' = ""
    /\ imError' = "null"
    /\ imSaved' = 1
    /\ imIsLoading' = FALSE
    /\ imCall' = NoInterruption
    /\ UNCHANGED exceptInterruption

\* handleSave after api.createInterruption rejected
ImSaveReject ==
    /\ imCall # NoInterruption
    /\ \E message \in ImErrorMessages :
        imError' = IF message # "" THEN message ELSE "Falha ao agendar interrupção."
    /\ imSaved' = 0
    /\ imIsLoading' = FALSE
    /\ imCall' = NoInterruption
    /\ UNCHANGED <<imDescription, imStart, imEnd, exceptInterruption>>

\* ------------------------------------------------------ SyncProductsModal
\* text is a sequence of characters; an optional number is <<>> (undefined
\* or null) or <<n>>
Undefined == <<>>
Defined(n) == <<n>>

\* String.prototype.trim
RECURSIVE trimStart(_)
trimStart(s) == IF s # <<>> /\ Head(s) = " " THEN trimStart(Tail(s)) ELSE s

RECURSIVE trimEnd(_)
trimEnd(s) ==
    IF s # <<>> /\ s[Len(s)] = " " THEN trimEnd(SubSeq(s, 1, Len(s) - 1)) ELSE s

trim(s) == trimEnd(trimStart(s))

DigitChars == {"0", "1", "2", "3", "4", "5", "6", "7", "8", "9"}

DigitValue(c) ==
    CASE c = "0" -> 0 [] c = "1" -> 1 [] c = "2" -> 2 [] c = "3" -> 3
      [] c = "4" -> 4 [] c = "5" -> 5 [] c = "6" -> 6 [] c = "7" -> 7
      [] c = "8" -> 8 [] c = "9" -> 9

\* Number(digits) of a string of digits
RECURSIVE NumberOfDigits(_)
NumberOfDigits(s) ==
    IF s = <<>> THEN 0
    ELSE 10 * NumberOfDigits(SubSeq(s, 1, Len(s) - 1)) + DigitValue(s[Len(s)])

\* value.replace(/\D/g, '')
OnlyDigits(s) == SelectSeq(s, LAMBDA c : c \in DigitChars)

\* the amount handleCurrencyChange stores for the typed text, in cents
\* (the code stores Number(digits) / 100)
CurrencyValue(value) ==
    IF OnlyDigits(value) = <<>> THEN Undefined
    ELSE Defined(NumberOfDigits(OnlyDigits(value)))

\* what handleGenericChange stores for the text of the stock input
StockValue(value) ==
    IF value = <<>> THEN Undefined
    ELSE IF Head(value) = "-" THEN Defined(0 - NumberOfDigits(Tail(value)))
    ELSE Defined(NumberOfDigits(value))

\* texts typed into the form
BarcodeInputs == {<<>>, <<" ">>, <<"7">>, <<" ", "7", " ">>, <<"8">>}
NameInputs == {<<>>, <<" ">>, <<"P", " ">>}
CurrencyInputs == {<<"R", "$">>, <<"0">>, <<"3", "0", "0">>, <<"R", "$", "5", "0", "0">>}
StockInputs == {<<>>, <<"2">>, <<"-", "1">>}
\* texts of a form that is filled in correctly
PlainBarcodeInputs == {<<"7">>, <<"8">>}
PlainNameInputs == {<<"P">>}
PlainCurrencyInputs == {<<"5", "0", "0">>}
PlainStockInputs == {<<"2">>}

emptyManualProduct ==
    [barcode |-> <<>>, name |-> <<>>, price |-> Undefined,
     promotion_price |-> Undefined, stock |-> Undefined, status |-> "active"]

NoFormError == [text |-> "null", barcode |-> <<>>]
NoMessage == [text |-> "", added |-> 0, duplicates |-> 0]
SyncErrorMessages == {"", "Erro interno do servidor"}

\* a step that calls none of the observed functions
QuietSync ==
    /\ apiSyncCalls' = 0
    /\ confirmAnswer' = "none"
    /\ syncCompleted' = 0
    /\ syncClosed' = 0

\* everything but the sync modal
exceptSync ==
    <<dashboardVars, mergeVars, pollPageVars, interruptionVars, parserVars, loginVars,
      appVars>>

\* ManualAddForm: onChange of the barcode and name inputs (handleGenericChange)
HandleBarcodeChange(value) ==
    /\ isSyncModalOpen
    /\ formError' = NoFormError
    /\ manualProduct' = [manualProduct EXCEPT !.barcode = value]
    /\ QuietSync
    /\ UNCHANGED <<isSyncModalOpen, syncQueue, isReset, isSyncing, syncError,
                   importMessage, isParsing, parsing, syncing, exceptSync>>

HandleNameChange(value) ==
    /\ isSyncModalOpen
    /\ formError' = NoFormError
    /\ manualProduct' = [manualProduct EXCEPT !.name = value]
    /\ QuietSync
    /\ UNCHANGED <<isSyncModalOpen, syncQueue, isReset, isSyncing, syncError,
                   importMessage, isParsing, parsing, syncing, exceptSync>>

\* onChange of the stock input (handleGenericChange, number field)
HandleStockChange(value) ==
    /\ isSyncModalOpen
    /\ formError' = NoFormError
    /\ manualProduct' = [manualProduct EXCEPT !.stock = StockValue(value)]
    /\ QuietSync
    /\ UNCHANGED <<isSyncModalOpen, syncQueue, isReset, isSyncing, syncError,
                   importMessage, isParsing, parsing, syncing, exceptSync>>

\* onChange of the price input (handleCurrencyChange)
HandlePriceChange(value) ==
    /\ isSyncModalOpen
    /\ formError' = NoFormError
    /\ manualProduct' = [manualProduct EXCEPT !.price = CurrencyValue(value)]
    /\ QuietSync
    /\ UNCHANGED <<isSyncModalOpen, syncQueue, isReset, isSyncing, syncError,
                   importMessage, isParsing, parsing, syncing, exceptSync>>

\* onChange of the promotional price input (handleCurrencyChange)
HandlePromotionChange(value) ==
    /\ isSyncModalOpen
    /\ formError' = NoFormError
    /\ manualProduct' =
           [manualProduct EXCEPT !.promotion_price = CurrencyValue(value)]
    /\ QuietSync
    /\ UNCHANGED <<isSyncModalOpen, syncQueue, isReset, isSyncing, syncError,
                   importMessage, isParsing, parsing, syncing, exceptSync>>

\* the tests of ManualAddForm.handleSubmit, in the order the code makes them
RequiredMissing(p) ==
    \/ trim(p.barcode) = <<>>
    \/ trim(p.name) = <<>>
    \/ p.price = Undefined
    \/ p.stock = Undefined

\* syncQueue.some(p => p.barcode === barcode)
AlreadyQueued(queue, barcode) ==
    \E i \in 1..Len(queue) : queue[i].barcode = barcode

NegativeAmount(p) == p.price[1] < 0 \/ p.stock[1] < 0

PromotionAbovePrice(p) ==
    p.promotion_price # Undefined /\ p.promotion_price[1] > p.price[1]

PromotionNotBelowPrice(p) ==
    p.promotion_price # Undefined /\ p.promotion_price[1] >= p.price[1]

\* `promotion_price || null`
OrNull(n) == IF n = Defined(0) THEN Undefined ELSE n

productToAdd(p) ==
    [barcode |-> trim(p.barcode), name |-> trim(p.name), price |-> p.price[1],
     stock |-> p.stock[1], status |-> p.status,
     promotion_price |-> OrNull(p.promotion_price)]

\* ManualAddForm.handleSubmit with the onAdd the modal passes to it
ManualHandleSubmit ==
    /\ isSyncModalOpen
    /\ IF RequiredMissing(manualProduct)
       THEN /\ formError' =
                   [text |-> "Por favor, preencha todos os campos obrigatórios (Barras, Nome, Preço, Estoque).",
                    barcode |-> <<>>]
            /\ UNCHANGED <<syncQueue, manualProduct>>
       ELSE IF AlreadyQueued(syncQueue, trim(manualProduct.barcode))
       THEN /\ formError' = [text |-> "Produto com código de barras já está na fila.",
                             barcode |-> manualProduct.barcode]
            /\ UNCHANGED <<syncQueue, manualProduct>>
       ELSE IF NegativeAmount(manualProduct)
       THEN /\ formError' = [text |-> "Preço e Estoque não podem ser negativos.",
                             barcode |-> <<>>]
            /\ UNCHANGED <<syncQueue, manualProduct>>
       ELSE IF PromotionNotBelowPrice(manualProduct)
       THEN /\ formError' =
                   [text |-> "O preço promocional deve ser menor que o preço normal.",
                    barcode |-> <<>>]
            /\ UNCHANGED <<syncQueue, manualProduct>>
       ELSE /\ formError' = NoFormError
            /\ syncQueue' = Append(syncQueue, productToAdd(manualProduct))
            /\ manualProduct' = emptyManualProduct
    /\ QuietSync
    /\ UNCHANGED <<isSyncModalOpen, isReset, isSyncing, syncError, importMessage,
                   isParsing, parsing, syncing, exceptSync>>

\* handleRemoveFromQueue, from the button of a row of the queue
HandleRemoveFromQueue(barcode) ==
    /\ isSyncModalOpen
    /\ AlreadyQueued(syncQueue, barcode)
    /\ syncQueue' = SelectSeq(syncQueue, LAMBDA p : p.barcode # barcode)
    /\ QuietSync
    /\ UNCHANGED <<isSyncModalOpen, isReset, isSyncing, syncError, importMessage,
                   isParsing, manualProduct, formError, parsing, syncing,
                   exceptSync>>

\* ----------------------------------------------- productParser.processData
NullProduct == [isNull |-> TRUE]

\* a product as a row processor builds it
MkProduct(barcode, name) ==
    [barcode |-> barcode, name |-> name, price |-> 500, stock |-> 2,
     status |-> "active", promotion_price |-> Undefined]

\* the test of the loop body, without the test of the barcodes seen so far
AcceptsAnyBarcode(product, uniqueBarcodes) ==
    product # NullProduct /\ product.barcode # <<>>

\* `product && product.barcode && !uniqueBarcodes.has(product.barcode)`
Accepts(product, uniqueBarcodes) ==
    /\ product # NullProduct
    /\ product.barcode # <<>>
    /\ product.barcode \notin uniqueBarcodes

\* the loop of processData over the processor's outputs for the rows left
RECURSIVE processFrom(_, _, _)
processFrom(outputs, validProducts, uniqueBarcodes) ==
    IF outputs = <<>> THEN validProducts
    ELSE IF Accepts(Head(outputs), uniqueBarcodes)
    THEN processFrom(Tail(outputs), Append(validProducts, Head(outputs)),
                     uniqueBarcodes \cup {Head(outputs).barcode})
    ELSE processFrom(Tail(outputs), validProducts, uniqueBarcodes)

\* processData(data, processor), given processor(item) for each item of data
processData(outputs) == processFrom(outputs, <<>>, {})

SeqsUpTo(S, n) == UNION {[1..k -> S] : k \in 0..n}

\* what a processor can return for a row
ProcessorOutputs ==
    {NullProduct, MkProduct(<<>>, <<"P">>), MkProduct(<<"7">>, <<"P">>),
     MkProduct(<<"7">>, <<"Q">>), MkProduct(<<"8">>, <<"P">>)}

\* processData applied to one list of processor outputs
ApplyProcessData ==
    /\ ~pdDone
    /\ pdResult' = processData(pdData)
    /\ pdDone' = TRUE
    /\ UNCHANGED <<pdData, syncVars, loginVars, appVars, dashboardVars, mergeVars,
                   pollPageVars, interruptionVars>>

\* ---------------------------------------- SyncProductsModal: file and sync
\* rows of an imported file, as the processor sees them
FileProcessorOutputs ==
    {NullProduct, MkProduct(<<"7">>, <<"P">>), MkProduct(<<"8">>, <<"P">>)}

\* lists parseProductFile can resolve to
ParsedFiles == {processData(rows) : rows \in SeqsUpTo(FileProcessorOutputs, MaxFileRows)}

ParseErrorMessages == {"", "Erro ao analisar o arquivo XML. Verifique o formato."}

RemoveAt(s, i) == SubSeq(s, 1, i - 1) \o SubSeq(s, i + 1, Len(s))

\* handleFileChange up to its await; the file input is disabled while parsing
HandleFileChange ==
    /\ isSyncModalOpen
    /\ ~isParsing
    /\ Len(parsing) < MaxParsing
    /\ isParsing' = TRUE
    /\ importMessage' = [text |-> "Lendo e processando arquivo...", added |-> 0,
                         duplicates |-> 0]
    /\ syncError' = "null"
    /\ parsing' = Append(parsing, syncQueue)
    /\ QuietSync
    /\ UNCHANGED <<isSyncModalOpen, syncQueue, isReset, isSyncing, manualProduct,
                   formError, syncing, exceptSync>>

\* newProducts.filter(p => !currentBarcodes.has(p.barcode)), currentBarcodes
\* built from the syncQueue the handler closed over
uniqueNewProducts(newProducts, closedOver) ==
    SelectSeq(newProducts, LAMBDA p : ~AlreadyQueued(closedOver, p.barcode))

\* handleFileChange after parseProductFile resolved
FileParsed(i, newProducts) ==
    /\ i \in 1..Len(parsing)
    /\ syncQueue' = syncQueue \o uniqueNewProducts(newProducts, parsing[i])
    /\ importMessage' =
           IF Len(newProducts) > 0
           THEN [text |-> "produtos foram adicionados à fila.",
                 added |-> Len(uniqueNewProducts(newProducts, parsing[i])),
                 duplicates |-> Len(newProducts)
                                - Len(uniqueNewProducts(newProducts, parsing[i]))]
           ELSE [text |-> "Nenhum produto válido encontrado no arquivo.",
                 added |-> 0, duplicates |-> 0]
    /\ isParsing' = FALSE
    /\ parsing' = RemoveAt(parsing, i)
    /\ QuietSync
    /\ UNCHANGED <<isSyncModalOpen, isReset, isSyncing, syncError, manualProduct,
                   formError, syncing, exceptSync>>

\* handleFileChange after parseProductFile rejected
FileRejected(i, message) ==
    /\ i \in 1..Len(parsing)
    /\ importMessage' =
           [text |-> IF message # "" THEN message
                     ELSE "Ocorreu um erro desconhecido ao processar o arquivo.",
            added |-> 0, duplicates |-> 0]
    /\ isParsing' = FALSE
    /\ parsing' = RemoveAt(parsing, i)
    /\ QuietSync
    /\ UNCHANGED <<isSyncModalOpen, syncQueue, isReset, isSyncing, syncError,
                   manualProduct, formError, syncing, exceptSync>>

\* onChange of the 'Carga Total' checkbox, disabled while syncing
SetIsReset ==
    /\ isSyncModalOpen
    /\ ~isSyncing
    /\ isReset' = ~isReset
    /\ QuietSync
    /\ UNCHANGED <<isSyncModalOpen, syncQueue, isSyncing, syncError, importMessage,
                   isParsing, manualProduct, formError, parsing, syncing,
                   exceptSync>>

\* handleSync up to its await, with the answer window.confirm gets when it
\* is asked
HandleSync(answer) ==
    /\ isSyncModalOpen
    /\ ~isSyncing
    /\ Len(syncing) < MaxSyncing
    /\ IF syncQueue = <<>>
       THEN /\ syncError' = "A fila de sincronização está vazia."
            /\ confirmAnswer' = "none"
            /\ apiSyncCalls' = 0
            /\ UNCHANGED <<isSyncing, syncing>>
       ELSE IF isReset /\ answer = "declined"
       THEN /\ confirmAnswer' = "declined"
            /\ apiSyncCalls' = 0
            /\ UNCHANGED <<syncError, isSyncing, syncing>>
       ELSE /\ confirmAnswer' = IF isReset THEN "accepted" ELSE "none"
            /\ isSyncing' = TRUE
            /\ syncError' = "null"
            /\ apiSyncCalls' = 1
            /\ syncing' = Append(syncing, [queue |-> syncQueue, isReset |-> isReset])
    /\ syncCompleted' = 0
    /\ syncClosed' = 0
    /\ UNCHANGED <<isSyncModalOpen, syncQueue, isReset, importMessage, isParsing,
                   manualProduct, formError, parsing, exceptSync>>

\* resetState; ManualAddForm is unmounted with the modal and loses its error
resetState ==
    /\ syncQueue' = <<>>
    /\ isReset' = FALSE
    /\ isSyncing' = FALSE
    /\ importMessage' = NoMessage
    /\ syncError' = "null"
    /\ isParsing' = FALSE
    /\ manualProduct' = emptyManualProduct

\* handleClose: resetState, then onClose, which the page answers with
\* setIsSyncModalOpen(false)
handleClose ==
    /\ resetState
    /\ syncClosed' = 1
    /\ isSyncModalOpen' = FALSE
    /\ formError' = NoFormError

\* the close button of the modal
HandleClose ==
    /\ isSyncModalOpen
    /\ handleClose
    /\ apiSyncCalls' = 0
    /\ confirmAnswer' = "none"
    /\ syncCompleted' = 0
    /\ UNCHANGED <<parsing, syncing, exceptSync>>

\* the page's 'Sincronizar Produtos' button
OpenSyncModal ==
    /\ ~isSyncModalOpen
    /\ isSyncModalOpen' = TRUE
    /\ QuietSync
    /\ UNCHANGED <<syncQueue, isReset, isSyncing, syncError, importMessage,
                   isParsing, manualProduct, formError, parsing, syncing,
                   exceptSync>>

\* the close that follows a resolved call, left out
SyncResolveStayingOpen(i) ==
    /\ i \in 1..Len(syncing)
    /\ syncCompleted' = 1
    /\ syncClosed' = 0
    /\ isSyncing' = FALSE
    /\ syncing' = RemoveAt(syncing, i)
    /\ apiSyncCalls' = 0
    /\ confirmAnswer' = "none"
    /\ UNCHANGED <<isSyncModalOpen, syncQueue, isReset, syncError, importMessage,
                   isParsing, manualProduct, formError, parsing, exceptSync>>

\* handleSync after api.syncProducts resolved: onSyncComplete, handleClose,
\* and the finally block
SyncResolve(i) ==
    /\ i \in 1..Len(syncing)
    /\ syncCompleted' = 1
    /\ handleClose
    /\ syncing' = RemoveAt(syncing, i)
    /\ apiSyncCalls' = 0
    /\ confirmAnswer' = "none"
    /\ UNCHANGED <<parsing, exceptSync>>

\* handleSync after api.syncProducts rejected: catch and finally
SyncReject(i, message) ==
    /\ i \in 1..Len(syncing)
    /\ syncError' = IF message # "" THEN message
                    ELSE "Ocorreu um erro ao sincronizar."
    /\ isSyncing' = FALSE
    /\ syncing' = RemoveAt(syncing, i)
    /\ QuietSync
    /\ UNCHANGED <<isSyncModalOpen, syncQueue, isReset, importMessage, isParsing,
                   manualProduct, formError, parsing, exceptSync>>

\* ------------------------------------------------------------- LoginPage
DefaultEmail ==
    <<"t", "e", "s", "t", "e", "@", "p", "o", "r", "t", "a", "l", ".", "c", "o", "m">>
DefaultPassword == <<"s", "e", "c", "r", "e", "t", "1", "2", "3">>

\* texts typed into the fields
EmailInputs == {<<>>, <<" ">>, DefaultEmail}
PasswordInputs == {<<>>, <<" ">>, DefaultPassword, <<"x">>}
ConfirmationInputs == {<<>>, DefaultPassword, <<"x">>}
LoginNameInputs == {<<>>, <<" ">>, <<"L">>}
CnpjInputs ==
    {<<>>, <<"1", "2", "3">>,
     <<"1", "2", "3", "4", "5", "6", "7", "8", "0", "0", "0", "1", "9", "9">>,
     <<"1", "2", ".", "3", "4", "5", ".", "6", "7", "8", "/", "0", "0", "0", "1",
       "-", "9", "9", "7">>}

\* messages of the errors the two calls can reject with
LoginErrorMessages ==
    {"", "Failed to fetch", "CNPJ não encontrado", "Já existe um usuário com este email",
     "Credenciais inválidas", "Erro interno do servidor"}

NoLoginCall == [stage |-> "none", email |-> <<>>, password |-> <<>>]

Min(a, b) == IF a <= b THEN a ELSE b

\* formatCnpj
formatCnpj(value) ==
    LET numbers == OnlyDigits(value)
        n == Len(numbers)
        slice(a, b) == SubSeq(numbers, a + 1, Min(b, n))
    IN IF n <= 2 THEN numbers
       ELSE IF n <= 5 THEN slice(0, 2) \o <<".">> \o slice(2, n)
       ELSE IF n <= 8
       THEN slice(0, 2) \o <<".">> \o slice(2, 5) \o <<".">> \o slice(5, n)
       ELSE IF n <= 12
       THEN slice(0, 2) \o <<".">> \o slice(2, 5) \o <<".">> \o slice(5, 8)
            \o <<"/">> \o slice(8, n)
       ELSE slice(0, 2) \o <<".">> \o slice(2, 5) \o <<".">> \o slice(5, 8)
            \o <<"/">> \o slice(8, 12) \o <<"-">> \o slice(12, 14)

\* the users the server knows
Users == {"ana", "bia"}

\* everything but the login page and the App
aroundLogin ==
    <<dashboardVars, mergeVars, pollPageVars, interruptionVars, parserVars, syncVars>>

\* everything but the login page
exceptLogin == <<aroundLogin, appVars>>

\* a step that calls neither the API nor onLogin
QuietLogin == lpApiCall' = "none" /\ lpLogins' = 0

\* onChange of the e-mail input
SetEmail(value) ==
    /\ lpMounted
    /\ lpEmail' = value
    /\ QuietLogin
    /\ UNCHANGED <<lpMounted, lpPassword, lpError, lpIsLoading, isRegisterMode, cnpj,
                   lpName, passwordConfirmation, lpCall, lpSubmitLogins, exceptLogin>>

\* onChange of the password input
SetPassword(value) ==
    /\ lpMounted
    /\ lpPassword' = value
    /\ QuietLogin
    /\ UNCHANGED <<lpMounted, lpEmail, lpError, lpIsLoading, isRegisterMode, cnpj,
                   lpName, passwordConfirmation, lpCall, lpSubmitLogins, exceptLogin>>

\* onChange of the confirmation input, rendered in register mode
SetPasswordConfirmation(value) ==
    /\ lpMounted
    /\ isRegisterMode
    /\ passwordConfirmation' = value
    /\ QuietLogin
    /\ UNCHANGED <<lpMounted, lpEmail, lpPassword, lpError, lpIsLoading,
                   isRegisterMode, cnpj, lpName, lpCall, lpSubmitLogins, exceptLogin>>

\* onChange of the name input, rendered in register mode
SetName(value) ==
    /\ lpMounted
    /\ isRegisterMode
    /\ lpName' = value
    /\ QuietLogin
    /\ UNCHANGED <<lpMounted, lpEmail, lpPassword, lpError, lpIsLoading,
                   isRegisterMode, cnpj, passwordConfirmation, lpCall,
                   lpSubmitLogins, exceptLogin>>

\* handleCnpjChange, from the CNPJ input rendered in register mode
HandleCnpjChange(value) ==
    /\ lpMounted
    /\ isRegisterMode
    /\ cnpj' = formatCnpj(value)
    /\ QuietLogin
    /\ UNCHANGED <<lpMounted, lpEmail, lpPassword, lpError, lpIsLoading,
                   isRegisterMode, lpName, passwordConfirmation, lpCall,
                   lpSubmitLogins, exceptLogin>>

\* toggleMode
ToggleMode ==
    /\ lpMounted
    /\ isRegisterMode' = ~isRegisterMode
    /\ lpError' = "null"
    /\ IF isRegisterMode
       THEN cnpj' = <<>> /\ lpName' = <<>> /\ passwordConfirmation' = <<>>
       ELSE UNCHANGED <<cnpj, lpName, passwordConfirmation>>
    /\ QuietLogin
    /\ UNCHANGED <<lpMounted, lpEmail, lpPassword, lpIsLoading, lpCall,
                   lpSubmitLogins, exceptLogin>>

\* the tests of handleSubmit
CnpjMissing(cleanCnpj) == cleanCnpj = <<>>

CnpjIncomplete(cleanCnpj) == Len(cleanCnpj) # 14

RegisterFieldBlank ==
    \/ CnpjMissing(OnlyDigits(cnpj))
    \/ trim(lpName) = <<>>
    \/ trim(lpEmail) = <<>>
    \/ trim(lpPassword) = <<>>
    \/ trim(passwordConfirmation) = <<>>

LoginFieldBlank == trim(lpEmail) = <<>> \/ trim(lpPassword) = <<>>

\* the message the validation of handleSubmit sets, "null" when it passes
ValidationError ==
    IF isRegisterMode
    THEN IF RegisterFieldBlank THEN "Por favor, preencha todos os campos."
         ELSE IF CnpjIncomplete(OnlyDigits(cnpj)) THEN "CNPJ deve ter 14 dígitos."
         ELSE IF lpPassword # passwordConfirmation THEN "As senhas não coincidem."
         ELSE "null"
    ELSE IF LoginFieldBlank THEN "Por favor, preencha o e-mail e a senha."
         ELSE "null"

\* handleSubmit up to its first await; the submit button is disabled while
\* loading
LoginHandleSubmit ==
    /\ lpMounted
    /\ ~lpIsLoading
    /\ lpError' = ValidationError
    /\ IF ValidationError # "null"
       THEN /\ lpApiCall' = "none"
            /\ UNCHANGED <<lpIsLoading, lpCall, lpSubmitLogins>>
       ELSE /\ lpIsLoading' = TRUE
            /\ lpApiCall' = IF isRegisterMode THEN "registerPortalUser" ELSE "login"
            /\ lpCall' = [stage |-> IF isRegisterMode THEN "register" ELSE "login",
                          email |-> lpEmail, password |-> lpPassword]
            /\ lpSubmitLogins' = 0
    /\ lpLogins' = 0
    /\ UNCHANGED <<lpMounted, lpEmail, lpPassword, isRegisterMode, cnpj, lpName,
                   passwordConfirmation, exceptLogin>>

\* App.handleLogin, reached as onLogin after api.login stored its token
handleLogin(loggedInUser) ==
    /\ user' = loggedInUser
    /\ hasToken' = TRUE
    /\ logoutCalls' = 0
    /\ UNCHANGED <<appIsLoading, getMePending>>

\* onLogin called as soon as the registration resolved
RegisterResolveLoggingIn ==
    /\ lpCall.stage = "register"
    /\ lpCall' = NoLoginCall
    /\ lpApiCall' = "none"
    /\ lpLogins' = 1
    /\ lpSubmitLogins' = lpSubmitLogins + 1
    /\ lpIsLoading' = FALSE
    /\ lpMounted' = FALSE
    /\ \E loggedInUser \in Users : handleLogin(loggedInUser)
    /\ UNCHANGED <<lpEmail, lpPassword, lpError, isRegisterMode, cnpj, lpName,
                   passwordConfirmation, aroundLogin>>

\* handleSubmit after api.registerPortalUser resolved: api.login is called
RegisterResolve ==
    /\ lpCall.stage = "register"
    /\ lpCall' = [lpCall EXCEPT !.stage = "login"]
    /\ lpApiCall' = "login"
    /\ lpLogins' = 0
    /\ UNCHANGED <<lpMounted, lpEmail, lpPassword, lpError, lpIsLoading,
                   isRegisterMode, cnpj, lpName, passwordConfirmation,
                   lpSubmitLogins, exceptLogin>>

\* the message the catch block of handleSubmit sets for a rejection
CaughtError(message) ==
    IF message = "Failed to fetch"
    THEN "Falha na conexão. Verifique sua internet e tente novamente."
    ELSE IF message = "CNPJ não encontrado"
    THEN "CNPJ não encontrado. Verifique o número ou entre em contato com o suporte."
    ELSE IF message = "Já existe um usuário com este email"
    THEN "Já existe um usuário com este email. Faça login ou use outro email."
    ELSE IF message = "Credenciais inválidas"
    THEN "E-mail ou senha incorretos. Por favor, verifique seus dados."
    ELSE IF message # "" THEN message
    ELSE "Ocorreu um erro inesperado. Tente novamente."

\* handleSubmit after api.registerPortalUser or api.login rejected: catch
\* and finally
SubmitReject(message) ==
    /\ lpCall.stage # "none"
    /\ lpError' = CaughtError(message)
    /\ lpIsLoading' = FALSE
    /\ lpCall' = NoLoginCall
    /\ QuietLogin
    /\ UNCHANGED <<lpMounted, lpEmail, lpPassword, isRegisterMode, cnpj, lpName,
                   passwordConfirmation, lpSubmitLogins, exceptLogin>>

\* handleSubmit after api.login resolved: onLogin, which makes the App
\* render the dashboard in place of the page, and finally
LoginResolve ==
    /\ lpCall.stage = "login"
    /\ lpCall' = NoLoginCall
    /\ lpApiCall' = "none"
    /\ lpLogins' = 1
    /\ lpSubmitLogins' = lpSubmitLogins + 1
    /\ lpIsLoading' = FALSE
    /\ lpMounted' = FALSE
    /\ \E loggedInUser \in Users : handleLogin(loggedInUser)
    /\ UNCHANGED <<lpEmail, lpPassword, lpError, isRegisterMode, cnpj, lpName,
                   passwordConfirmation, aroundLogin>>

\* -------------------------------------------------------------------- App
\* what the App renders
View ==
    IF appIsLoading THEN "loading"
    ELSE IF user # "null" THEN "dashboard"
    ELSE "login"

\* LoginPage rendered anew
LoginPageMount ==
    /\ lpMounted' = TRUE
    /\ lpEmail' = DefaultEmail
    /\ lpPassword' = DefaultPassword
    /\ lpError' = "null"
    /\ lpIsLoading' = FALSE
    /\ isRegisterMode' = FALSE
    /\ cnpj' = <<>>
    /\ lpName' = <<>>
    /\ passwordConfirmation' = <<>>
    /\ lpCall' = NoLoginCall
    /\ lpApiCall' = "none"
    /\ lpLogins' = 0
    /\ lpSubmitLogins' = 0

\* checkSession after api.getMe resolved; getMe needs a stored token
GetMeResolve(currentUser) ==
    /\ getMePending
    /\ hasToken
    /\ user' = currentUser
    /\ appIsLoading' = FALSE
    /\ getMePending' = FALSE
    /\ logoutCalls' = 0
    /\ UNCHANGED <<hasToken, loginVars, aroundLogin>>

\* the rejection that leaves the loading screen up
GetMeRejectStillLoading(tokenCleared) ==
    /\ getMePending
    /\ user' = "null"
    /\ hasToken' = (hasToken /\ ~tokenCleared)
    /\ getMePending' = FALSE
    /\ logoutCalls' = 0
    /\ UNCHANGED <<appIsLoading, loginVars, aroundLogin>>

\* checkSession after api.getMe rejected: no token, or a request that
\* failed, a 401 clearing the token
GetMeReject(tokenCleared) ==
    /\ getMePending
    /\ user' = "null"
    /\ appIsLoading' = FALSE
    /\ hasToken' = (hasToken /\ ~tokenCleared)
    /\ getMePending' = FALSE
    /\ logoutCalls' = 0
    /\ LoginPageMount
    /\ UNCHANGED aroundLogin

\* handleLogout, from the button of the dashboard header
HandleLogout ==
    /\ View = "dashboard"
    /\ logoutCalls' = 1
    /\ hasToken' = FALSE
    /\ user' = "null"
    /\ LoginPageMount
    /\ UNCHANGED <<appIsLoading, getMePending, aroundLogin>>

\* api.getMe settles
GetMeSettles ==
    \/ \E currentUser \in Users : GetMeResolve(currentUser)
    \/ \E tokenCleared \in BOOLEAN : GetMeReject(tokenCleared)

\* ---------------------------------------------------------- specification
\* the dashboard after its first render, OrderList mounted, with the mute
\* flag localStorage holds
DashboardStart(savedMute) ==
    /\ selectedOrderId = NullId
    /\ hidden = FALSE
    /\ orders = <<>>
    /\ pagination = NoPagination
    /\ isLoading = TRUE
    /\ error = "null"
    /\ updatingOrderIds = {}
    /\ justUpdatedOrderId = NullId
    /\ filters = defaultFilters
    /\ isMuted = savedMute
    /\ newOrderIds = {}
    /\ inflight = SetToBag({FetchReq(1)})
    /\ updatesInFlight = {}
    /\ order = NoOrder
    /\ detailIsLoading = TRUE
    /\ isActionLoading = FALSE
    /\ detailError = "null"
    /\ detailCall = NoCall
    /\ plays = 0
    /\ cuedIds = {}
    /\ alerts = 0
    /\ trail = <<>>
    /\ tempFilters = defaultFilters
    /\ tempIsApplied = TRUE
    /\ showFilters = FALSE
    /\ isPollingActive = ShouldPoll(defaultFilters)
    /\ intervals = (IF ShouldPoll(defaultFilters) THEN 1 ELSE 0)

\* the updater is not being applied on its own
MergeIdle ==
    /\ mergeCurrent = <<>>
    /\ mergeFetched = <<>>
    /\ mergeResult = <<>>
    /\ mergeDone = FALSE

\* neither are pollFilters and the setPagination updater
PollPageIdle ==
    /\ pollApplied = defaultFilters
    /\ pollPrev = NoPagination
    /\ pollFetched = NoPagination
    /\ pollRequest = defaultFilters
    /\ pollResult = NoPagination
    /\ pollDone = FALSE

\* InterruptionsModal after its first render
ImIdle ==
    /\ imDescription = ""
    /\ imStart = ""
    /\ imEnd = ""
    /\ imIsLoading = FALSE
    /\ imError = "null"
    /\ imCall = NoInterruption
    /\ imSaved = 0

\* SyncProductsModal after its first render, with the page's isSyncModalOpen
SyncStart(open, queue) ==
    /\ isSyncModalOpen = open
    /\ syncQueue = queue
    /\ isReset = FALSE
    /\ isSyncing = FALSE
    /\ syncError = "null"
    /\ importMessage = NoMessage
    /\ isParsing = FALSE
    /\ manualProduct = emptyManualProduct
    /\ formError = NoFormError
    /\ parsing = <<>>
    /\ syncing = <<>>
    /\ apiSyncCalls = 0
    /\ confirmAnswer = "none"
    /\ syncCompleted = 0
    /\ syncClosed = 0

SyncIdle == SyncStart(FALSE, <<>>)

ParserIdle ==
    /\ pdData = <<>>
    /\ pdResult = <<>>
    /\ pdDone = FALSE

\* LoginPage after its first render, or not rendered
LoginStart(mounted) ==
    /\ lpMounted = mounted
    /\ lpEmail = DefaultEmail
    /\ lpPassword = DefaultPassword
    /\ lpError = "null"
    /\ lpIsLoading = FALSE
    /\ isRegisterMode = FALSE
    /\ cnpj = <<>>
    /\ lpName = <<>>
    /\ passwordConfirmation = <<>>
    /\ lpCall = NoLoginCall
    /\ lpApiCall = "none"
    /\ lpLogins = 0
    /\ lpSubmitLogins = 0

\* the App with its session check settled
AppSettled(currentUser) ==
    /\ user = currentUser
    /\ appIsLoading = FALSE
    /\ hasToken = (currentUser # "null")
    /\ getMePending = FALSE
    /\ logoutCalls = 0

\* the login page not rendered: somebody is logged in
LoginIdle == LoginStart(FALSE) /\ AppSettled("ana")

\* everything but the sync modal, idle
AroundSync ==
    /\ DashboardStart(TRUE)
    /\ MergeIdle
    /\ PollPageIdle
    /\ ImIdle
    /\ ParserIdle
    /\ LoginIdle

\* the forms after their first render
FormsIdle == ImIdle /\ SyncIdle /\ ParserIdle /\ LoginIdle

StartState(savedMute) ==
    DashboardStart(savedMute) /\ MergeIdle /\ PollPageIdle /\ FormsIdle

\* the list view with notifications muted in localStorage: fetching,
\* polling, paging, filters and tab visibility
Init == StartState(TRUE)

Next ==
    \/ FetchResolve
    \/ FetchReject
    \/ PollTick
    \/ PollResolve
    \/ PollReject
    \/ JustUpdatedTimeout
    \/ HandleRefresh
    \/ HandlePageChange
    \/ ChangeFilters
    \/ VisibilityChange

Spec == Init /\ [][Next]_vars

\* the list view in a visible tab, with the mute button: notifications
InitNotify == \E savedMute \in BOOLEAN : StartState(savedMute)

NextNotify ==
    \/ FetchResolve
    \/ FetchReject
    \/ PollTick
    \/ PollResolve
    \/ PollReject
    \/ JustUpdatedTimeout
    \/ ToggleMute
    \/ HandleRefresh
    \/ HandlePageChange
    \/ ChangeFilters

SpecNotify == InitNotify /\ [][NextNotify]_vars

\* the status workflow: the list with its action buttons and polls, and the
\* detail view
InitWorkflow == StartState(TRUE)

NextWorkflow ==
    \/ FetchResolve
    \/ FetchReject
    \/ PollTick
    \/ PollResolve
    \/ PollReject
    \/ JustUpdatedTimeout
    \/ HandleRefresh
    \/ CardActionClick
    \/ UpdateResolve
    \/ UpdateReject
    \/ SelectOrder
    \/ DetailFetchResolve
    \/ DetailFetchReject
    \/ HandleAction
    \/ DetailUpdateResolve
    \/ DetailUpdateReject
    \/ BackToList

SpecWorkflow == InitWorkflow /\ [][NextWorkflow]_vars

\* the filter panel, the per-page select and the polling interval
InitFilters == StartState(TRUE)

NextFilters ==
    \/ FetchResolve
    \/ PollTick
    \/ PollReject
    \/ ToggleMute
    \/ ToggleFilterPanel
    \/ HandleDateRangeClick
    \/ HandleDateInputChange
    \/ HandleApplyFilters
    \/ HandleClearFilters
    \/ HandlePerPageChange

SpecFilters == InitFilters /\ [][NextFilters]_vars

\* the filter panel alone: presets, date inputs, per-page select, apply and
\* clear, with the fetches they start
InitPanel == StartState(TRUE)

NextPanel ==
    \/ FetchResolve
    \/ ToggleFilterPanel
    \/ HandleDateRangeClick
    \/ HandleDateInputChange
    \/ HandleApplyFilters
    \/ HandleClearFilters
    \/ HandlePerPageChange

SpecPanel == InitPanel /\ [][NextPanel]_vars

\* the interruptions modal, open
InitInterruptions == StartState(TRUE)

NextInterruptions ==
    \/ ImSetDescription
    \/ ImSetStart
    \/ ImSetEnd
    \/ ImHandleSave
    \/ ImSaveResolve
    \/ ImSaveReject

SpecInterruptions == InitInterruptions /\ [][NextInterruptions]_vars

\* barcodes of a queue
BarcodesOf(queue) == {queue[i].barcode : i \in 1..Len(queue)}

\* ManualAddForm in the open modal: typing, submitting, removing rows
InitManualAdd == AroundSync /\ SyncStart(TRUE, <<>>)

NextManualAdd ==
    \/ \E value \in BarcodeInputs : HandleBarcodeChange(value)
    \/ \E value \in NameInputs : HandleNameChange(value)
    \/ \E value \in StockInputs : HandleStockChange(value)
    \/ \E value \in CurrencyInputs : HandlePriceChange(value)
    \/ \E value \in CurrencyInputs : HandlePromotionChange(value)
    \/ ManualHandleSubmit
    \/ \E barcode \in BarcodesOf(syncQueue) : HandleRemoveFromQueue(barcode)

SpecManualAdd == InitManualAdd /\ [][NextManualAdd]_vars

\* the queue of the open modal: manual adds of well-formed products,
\* removals and file imports
InitQueue == AroundSync /\ SyncStart(TRUE, <<>>)

NextQueue ==
    \/ \E value \in PlainBarcodeInputs : HandleBarcodeChange(value)
    \/ \E value \in PlainNameInputs : HandleNameChange(value)
    \/ \E value \in PlainStockInputs : HandleStockChange(value)
    \/ \E value \in PlainCurrencyInputs : HandlePriceChange(value)
    \/ ManualHandleSubmit
    \/ \E barcode \in BarcodesOf(syncQueue) : HandleRemoveFromQueue(barcode)
    \/ HandleFileChange
    \/ \E i \in 1..Len(parsing), newProducts \in ParsedFiles : FileParsed(i, newProducts)
    \/ \E i \in 1..Len(parsing), message \in ParseErrorMessages :
           FileRejected(i, message)

SpecQueue == InitQueue /\ [][NextQueue]_vars

\* queues the modal can hold when the sync button is pressed
SyncQueues ==
    {q \in SeqsUpTo({MkProduct(<<"7">>, <<"P">>), MkProduct(<<"7">>, <<"Q">>),
                     MkProduct(<<"8">>, <<"P">>)}, MaxFileRows) :
        \A i, j \in 1..Len(q) : q[i].barcode = q[j].barcode => i = j}

\* the sync button of the modal, with a queue already filled
InitSync ==
    /\ AroundSync
    /\ \E queue \in SyncQueues : SyncStart(TRUE, queue)

NextSync ==
    \/ SetIsReset
    \/ \E answer \in {"accepted", "declined"} : HandleSync(answer)
    \/ \E i \in 1..Len(syncing) : SyncResolve(i)
    \/ \E i \in 1..Len(syncing), message \in SyncErrorMessages : SyncReject(i, message)
    \/ HandleClose
    \/ OpenSyncModal
    \/ \E barcode \in BarcodesOf(syncQueue) : HandleRemoveFromQueue(barcode)

SpecSync == InitSync /\ [][NextSync]_vars

\* processData as a function of the processor's outputs for the rows
InitParser ==
    /\ DashboardStart(TRUE)
    /\ MergeIdle
    /\ PollPageIdle
    /\ ImIdle
    /\ SyncIdle
    /\ LoginIdle
    /\ pdData \in SeqsUpTo(ProcessorOutputs, MaxRows)
    /\ pdResult = <<>>
    /\ pdDone = FALSE

NextParser == ApplyProcessData

SpecParser == InitParser /\ [][NextParser]_vars

\* the login page before anyone is logged in
InitLogin ==
    /\ DashboardStart(TRUE)
    /\ MergeIdle
    /\ PollPageIdle
    /\ ImIdle
    /\ SyncIdle
    /\ ParserIdle
    /\ LoginStart(TRUE)
    /\ AppSettled("null")

NextLogin ==
    \/ \E value \in EmailInputs : SetEmail(value)
    \/ \E value \in PasswordInputs : SetPassword(value)
    \/ \E value \in ConfirmationInputs : SetPasswordConfirmation(value)
    \/ \E value \in LoginNameInputs : SetName(value)
    \/ \E value \in CnpjInputs : HandleCnpjChange(value)
    \/ ToggleMode
    \/ LoginHandleSubmit
    \/ RegisterResolve
    \/ \E message \in LoginErrorMessages : SubmitReject(message)
    \/ LoginResolve

SpecLogin == InitLogin /\ [][NextLogin]_vars

\* the App from its first render: session check, login, logout
InitApp ==
    /\ DashboardStart(TRUE)
    /\ MergeIdle
    /\ PollPageIdle
    /\ ImIdle
    /\ SyncIdle
    /\ ParserIdle
    /\ LoginStart(FALSE)
    /\ user = "null"
    /\ appIsLoading = TRUE
    /\ hasToken \in BOOLEAN
    /\ getMePending = TRUE
    /\ logoutCalls = 0

NextApp ==
    \/ GetMeSettles
    \/ HandleLogout
    \/ \E value \in EmailInputs : SetEmail(value)
    \/ \E value \in PasswordInputs : SetPassword(value)
    \/ LoginHandleSubmit
    \/ \E message \in LoginErrorMessages : SubmitReject(message)
    \/ LoginResolve

\* api.getMe settles in the end: it rejects at once without a token and
\* otherwise follows one fetch
SpecApp == InitApp /\ [][NextApp]_vars /\ WF_vars(GetMeSettles)

\* the setOrders updater of pollForNewOrders as a function of the current
\* list and the fetched list
InitMerge ==
    /\ DashboardStart(TRUE)
    /\ PollPageIdle
    /\ FormsIdle
    /\ mergeCurrent \in MergeLists
    /\ mergeFetched \in MergeLists
    /\ mergeResult = <<>>
    /\ mergeDone = FALSE

NextMerge == ApplyMerge

SpecMerge == InitMerge /\ [][NextMerge]_vars

\* pollFilters and the setPagination updater of pollForNewOrders as
\* functions of the applied filters, the stored and the polled pagination
InitPollPage ==
    /\ DashboardStart(TRUE)
    /\ MergeIdle
    /\ FormsIdle
    /\ pollApplied \in PollableFilters
    /\ pollPrev \in FullPaginations \cup {NoPagination}
    /\ pollFetched \in {g \in FullPaginations : g.currentPage = 1}
    /\ pollRequest = defaultFilters
    /\ pollResult = NoPagination
    /\ pollDone = FALSE

NextPollPage == ApplyPollPage

SpecPollPage == InitPollPage /\ [][NextPollPage]_vars

\* ------------------------------------------------------------- properties
\* api.getOrders requests of pollForNewOrders in a bag of requests
PollsIn(b) == CopiesIn(PollReq(TRUE), b) + CopiesIn(PollReq(FALSE), b)

\* the sum of f over 1..n
RECURSIVE SumTo(_, _)
SumTo(f(_), n) == IF n = 0 THEN 0 ELSE f(n) + SumTo(f, n - 1)

\* api.getOrders requests of fetchOrders in a bag of requests
FetchesIn(b) == SumTo(LAMBDA p : CopiesIn(FetchReq(p), b), MaxPages)

\* the statuses for which the workflow offers no action
TerminalStatuses ==
    {"DSP", "OPA", "CON", "DDCS", "CAN", "CAR", "CANCELLATION_REQUESTED"}

\* the one api.updateOrderStatus call an action on order o has to issue
CallFor(o) == [order |-> o, nextStatus |-> NEXT_ACTION_MAP(o.status).nextStatus]

\* C1: NEXT_ACTION_MAP holds no action exactly for DSP, OPA, CON, DDCS, CAN,
\* CAR and CANCELLATION_REQUESTED and one {text, nextStatus} with a status as
\* target for every other status; a click on an order card and handleAction
\* of the detail view issue exactly one call updateOrderStatus(order,
\* NEXT_ACTION_MAP[order.status].nextStatus), and none when the status has
\* no action; no other step issues a call.
C1_OneCallPerAction ==
    [][ /\ \A s \in OrderStatus :
            IF s \in TerminalStatuses
            THEN NEXT_ACTION_MAP(s) = NoAction
            ELSE /\ NEXT_ACTION_MAP(s).nextStatus \in OrderStatus
                 /\ NEXT_ACTION_MAP(s).text # "null"
        /\ \A k \in 1..MaxId :
            CardActionClickOn(k) =>
                IF orders[k].status \in TerminalStatuses
                THEN updatesInFlight' = updatesInFlight
                ELSE /\ updatesInFlight' = updatesInFlight \cup {CallFor(orders[k])}
                     /\ Cardinality(updatesInFlight') = Cardinality(updatesInFlight) + 1
        /\ HandleAction =>
                IF order.status \in TerminalStatuses
                THEN detailCall' = detailCall
                ELSE detailCall = NoCall /\ detailCall' = CallFor(order)
        /\ updatesInFlight' \ updatesInFlight # {} =>
                \E k \in 1..MaxId : CardActionClickOn(k)
        /\ (detailCall' # detailCall /\ detailCall' # NoCall) => HandleAction
      ]_vars

\* the call of a click on a card in status SPE is in flight
C1_Witness ==
    /\ ListMounted
    /\ \E u \in updatesInFlight, k \in DOMAIN orders :
        /\ u.order = orders[k]
        /\ u.order.status = "SPE"
        /\ u.nextStatus = "DSP"

\* the fetched orders whose id the current list does not hold, in response order
RECURSIVE UnseenOrders(_, _)
UnseenOrders(cur, fetched) ==
    IF fetched = <<>> THEN <<>>
    ELSE IF \E k \in DOMAIN cur : cur[k].id = Head(fetched).id
         THEN UnseenOrders(cur, Tail(fetched))
         ELSE <<Head(fetched)>> \o UnseenOrders(cur, Tail(fetched))

\* a fetched order with the id of o and another status
StatusChanged(o, fetched) ==
    \E j \in DOMAIN fetched : fetched[j].id = o.id /\ fetched[j].status # o.status

\* C2: the list a poll merge produces is the new fetched orders (ids absent
\* from the current list) in response order, followed by the current orders
\* in their order, each replaced by the fetched order of the same id if and
\* only if the status differs and otherwise kept as it is, whatever else
\* differs; with no new id and no changed status the current list is
\* returned.
C2_PollMerge ==
    mergeDone =>
        /\ mergeResult =
              UnseenOrders(mergeCurrent, mergeFetched) \o
              [k \in DOMAIN mergeCurrent |->
                  IF StatusChanged(mergeCurrent[k], mergeFetched)
                  THEN CHOOSE f \in {mergeFetched[j] : j \in DOMAIN mergeFetched} :
                           f.id = mergeCurrent[k].id
                  ELSE mergeCurrent[k]]
        /\ ( /\ UnseenOrders(mergeCurrent, mergeFetched) = <<>>
             /\ \A k \in DOMAIN mergeCurrent :
                    ~StatusChanged(mergeCurrent[k], mergeFetched) )
           => mergeResult = mergeCurrent

\* a merge that kept an order whose fetched copy differs in another field
\* only, and prepended a new one
C2_Witness ==
    /\ mergeDone
    /\ UnseenOrders(mergeCurrent, mergeFetched) # <<>>
    /\ \E k \in DOMAIN mergeCurrent, j \in DOMAIN mergeFetched :
        /\ mergeFetched[j].id = mergeCurrent[k].id
        /\ mergeFetched[j].status = mergeCurrent[k].status
        /\ mergeFetched[j] # mergeCurrent[k]

\* C3: while the document is hidden no step issues a getOrders request of a
\* poll, and a poll tick leaves the state of the list as it is.
C3_HiddenTickIdle ==
    [][ /\ hidden => PollsIn(inflight') <= PollsIn(inflight)
        /\ (PollTick /\ hidden) => UNCHANGED listVars
      ]_vars

\* a hidden tab over a loaded, polling list with no request pending
C3_Witness ==
    /\ hidden
    /\ ListMounted
    /\ ShouldPoll(filters)
    /\ inflight = EmptyBag
    /\ orders # <<>>

\* C4: a step that plays the sound announces no order id that a sound has
\* announced before.
C4_OneCuePerOrder ==
    [][ plays' > 0 => (IdsOf(orders') \ IdsOf(orders)) \cap cuedIds = {} ]_vars

\* C5: a poll merge that finds ids absent from the list adds them to
\* newOrderIds and starts the audio exactly once if isMuted is false and not
\* at all if it is true; a merge that finds none plays nothing and leaves
\* newOrderIds alone; fetchOrders leaves newOrderIds alone.
C5_NotifyOnNewIds ==
    [][ /\ PollResolve =>
            IF IdsOf(orders') \ IdsOf(orders) # {}
            THEN /\ newOrderIds' = newOrderIds \cup (IdsOf(orders') \ IdsOf(orders))
                 /\ plays' = IF isMuted THEN 0 ELSE 1
            ELSE /\ plays' = 0
                 /\ newOrderIds' = newOrderIds
        /\ FetchResolve => newOrderIds' = newOrderIds
        /\ FetchReject => newOrderIds' = newOrderIds
      ]_vars

C7_AcyclicWorkflow ==
    /\ Len(trail) <= 4
    /\ \A a, b \in DOMAIN trail : trail[a] = trail[b] => a = b
    /\ \A a \in DOMAIN trail : a > 1 => trail[a] # "SPS"
    /\ Len(trail) = 4 => trail = <<"PLC", "COM", "SPE", "DSP">>
    /\ \A s \in OrderStatus : NEXT_ACTION_MAP(s).nextStatus # "SPS"

\* the longest chain, walked to its end in the detail view
C7_Witness ==
    /\ trail = <<"PLC", "COM", "SPE", "DSP">>
    /\ order.status = "DSP"

\* C8: a step in which fetchOrders fails sets error to 'Falha ao carregar
\* pedidos.' and isLoading to false and keeps orders and pagination.
C8_FetchFailure ==
    [][ (FetchReject \/ (error = "null" /\ error' # "null")) =>
            /\ error' = "Falha ao carregar pedidos."
            /\ ~isLoading'
            /\ orders' = orders
            /\ pagination' = pagination
      ]_vars

\* a failed fetch over a list that had been loaded
C8_Witness ==
    /\ error = "Falha ao carregar pedidos."
    /\ ~isLoading
    /\ orders # <<>>
    /\ pagination # NoPagination

\* C9: the step that raises the alert of a failed status update keeps the
\* list, removes the order id from updatingOrderIds and issues no call; a
\* resolved update removes the id as well; calls are issued by clicks only;
\* updatingOrderIds is empty whenever no update call is in flight.
C9_FailedUpdate ==
    /\ [](updatesInFlight = {} => updatingOrderIds = {})
    /\ [][ /\ UpdateReject => alerts' = 1
           /\ alerts' = 1 =>
                /\ orders' = orders
                /\ \E u \in updatesInFlight :
                    /\ updatesInFlight' = updatesInFlight \ {u}
                    /\ u.order.id \in updatingOrderIds
                    /\ updatingOrderIds' = updatingOrderIds \ {u.order.id}
           /\ UpdateResolve =>
                \E u \in updatesInFlight :
                    /\ updatesInFlight' = updatesInFlight \ {u}
                    /\ updatingOrderIds' = updatingOrderIds \ {u.order.id}
           /\ updatesInFlight' \ updatesInFlight # {} =>
                \E k \in 1..MaxId : CardActionClickOn(k)
         ]_vars

\* the alert of a failed update over a list that still shows the order
C9_Witness ==
    /\ alerts = 1
    /\ orders # <<>>
    /\ updatingOrderIds = {}
    /\ updatesInFlight = {}

\* C10: while error is set the list view is neither loading nor rendering its
\* main view, no step starts a fetch, and no step (a poll merge or another
\* fetch completing included) clears error.
C10_ErrorSticks ==
    /\ [](error # "null" => ~isLoading /\ ~MainView /\ ~ListShown /\ ~PagerShown)
    /\ [][ error # "null" =>
              /\ error' # "null"
              /\ FetchesIn(inflight') <= FetchesIn(inflight)
         ]_vars

\* error is set while another fetch and a poll are still in flight
C10_Witness ==
    /\ error # "null"
    /\ FetchesIn(inflight) > 0
    /\ PollsIn(inflight) > 0

\* C13: a step in which a poll fails leaves orders, pagination, newOrderIds,
\* justUpdatedOrderId, error and isLoading as they are, plays no sound and
\* leaves the polling interval installed.
C13_FailedPollSilent ==
    [][ PollReject =>
            /\ UNCHANGED <<orders, pagination, newOrderIds, justUpdatedOrderId,
                           error, isLoading>>
            /\ plays' = 0
            /\ alerts' = 0
            /\ intervals' = intervals
            /\ isPollingActive' = isPollingActive
      ]_vars

\* a poll is in flight over a loaded list that shows no error and polls
C13_Witness ==
    /\ ListMounted
    /\ orders # <<>>
    /\ error = "null"
    /\ ~isLoading
    /\ intervals = 1
    /\ PollsIn(inflight) = 1
    /\ FetchesIn(inflight) = 0

\* the condition under which the list polls, as the claim words it
Pollable(f) == f.dateRange \in {"today", ""} /\ f.dateFrom = "" /\ f.dateTo = ""

\* C14: exactly one polling interval is installed while the applied filters
\* have dateRange 'today' or empty and no custom date, and none otherwise;
\* isPollingActive equals that condition; while the applied filters are not
\* pollable no step starts a poll request; never are two intervals installed.
C14_IntervalFollowsFilters ==
    /\ [](ListMounted =>
            /\ intervals = (IF Pollable(filters) THEN 1 ELSE 0)
            /\ isPollingActive = Pollable(filters))
    /\ [](intervals <= 1)
    /\ [][ ~Pollable(filters') => PollsIn(inflight') <= PollsIn(inflight) ]_vars

\* custom dates are applied, the interval is cleared, and a poll started
\* before is still in flight
C14_Witness ==
    /\ filters.dateRange = ""
    /\ filters.dateFrom # ""
    /\ intervals = 0
    /\ ~isPollingActive
    /\ PollsIn(inflight) > 0

\* C15: a poll asks for page 1 with dateRange 'today' and the applied search
\* term, status and perPage; its pagination updater keeps a null pagination
\* null, keeps the stored object when the polled total equals the stored
\* one, and otherwise takes total, totalPages and perPage from the poll and
\* keeps currentPage.
C15_PollKeepsPage ==
    pollDone =>
        /\ pollRequest.page = 1
        /\ pollRequest.dateRange = "today"
        /\ pollRequest.searchTerm = pollApplied.searchTerm
        /\ pollRequest.status = pollApplied.status
        /\ pollRequest.perPage = pollApplied.perPage
        /\ IF pollPrev = NoPagination THEN pollResult = NoPagination
           ELSE /\ pollResult.currentPage = pollPrev.currentPage
                /\ IF pollFetched.total = pollPrev.total
                   THEN pollResult = pollPrev
                   ELSE /\ pollResult.total = pollFetched.total
                        /\ pollResult.totalPages = pollFetched.totalPages
                        /\ pollResult.perPage = pollFetched.perPage

\* page 2 is displayed and the poll of page 1 reports another total
C15_Witness ==
    /\ pollDone
    /\ pollPrev # NoPagination
    /\ pollPrev.currentPage = 2
    /\ pollFetched.total # pollPrev.total
    /\ pollResult.currentPage = 2
    /\ pollResult.total = pollFetched.total

\* a preset period together with a custom date
Exclusive(f) == f.dateRange = "" \/ (f.dateFrom = "" /\ f.dateTo = "")

C11_SaveValidates ==
    /\ [](imIsLoading <=> imCall # NoInterruption)
    /\ [][ /\ ImHandleSave =>
                IF \/ imDescription = "" \/ imStart = "" \/ imEnd = ""
                   \/ ~(DateValue(imStart) < DateValue(imEnd))
                THEN /\ imError' # "null"
                     /\ imCall' = NoInterruption
                     /\ UNCHANGED <<imDescription, imStart, imEnd, imIsLoading>>
                ELSE /\ imCall' # NoInterruption
                     /\ imCall'.description = imDescription
                     /\ imCall'.start < imCall'.end
                     /\ imError' = "null"
           /\ imCall' # imCall /\ imCall' # NoInterruption => ImHandleSave
           /\ imSaved' = 1 =>
                /\ imCall # NoInterruption
                /\ imCall' = NoInterruption
                /\ imDescription' = "" /\ imStart' = "" /\ imEnd' = ""
                /\ ~imIsLoading'
           /\ ImSaveResolve => imSaved' = 1
           /\ ImSaveReject =>
                /\ imError' # "null"
                /\ UNCHANGED <<imDescription, imStart, imEnd>>
                /\ ~imIsLoading'
                /\ imSaved' = 0
         ]_vars

\* a save of equal start and end was refused with the fields kept
C11_Witness ==
    /\ imError = "A data de início deve ser anterior à data de fim."
    /\ imDescription # ""
    /\ imStart # ""
    /\ imStart = imEnd
    /\ imCall = NoInterruption

\* what the form asks of the product typed into it, against a queue
Addable(p, queue) ==
    /\ trim(p.barcode) # <<>>
    /\ trim(p.name) # <<>>
    /\ p.price # Undefined
    /\ p.stock # Undefined
    /\ p.price[1] >= 0
    /\ p.stock[1] >= 0
    /\ trim(p.barcode) \notin BarcodesOf(queue)
    /\ p.promotion_price = Undefined \/ p.promotion_price[1] < p.price[1]

\* C12: a submit of ManualAddForm adds the product exactly when barcode and
\* name are non-blank after trimming, price and stock are defined and not
\* negative, the trimmed barcode is not queued and the promotional price is
\* absent or below the price; it then appends that one product, barcode and
\* name trimmed, and empties the form. Every other submit leaves queue and
\* form as they were and sets an error. The queue grows in no other way.
C12_ManualAdd ==
    [][ /\ ManualHandleSubmit /\ Addable(manualProduct, syncQueue) =>
             /\ Len(syncQueue') = Len(syncQueue) + 1
             /\ SubSeq(syncQueue', 1, Len(syncQueue)) = syncQueue
             /\ syncQueue'[Len(syncQueue')].barcode = trim(manualProduct.barcode)
             /\ syncQueue'[Len(syncQueue')].name = trim(manualProduct.name)
             /\ syncQueue'[Len(syncQueue')].price = manualProduct.price[1]
             /\ syncQueue'[Len(syncQueue')].stock = manualProduct.stock[1]
             /\ syncQueue'[Len(syncQueue')].promotion_price
                    \in {manualProduct.promotion_price, Undefined}
             /\ manualProduct' = emptyManualProduct
             /\ formError' = NoFormError
        /\ ManualHandleSubmit /\ ~Addable(manualProduct, syncQueue) =>
             /\ UNCHANGED <<syncQueue, manualProduct>>
             /\ formError'.text # "null"
        /\ Len(syncQueue') > Len(syncQueue) =>
             ManualHandleSubmit /\ Addable(manualProduct, syncQueue)
      ]_vars

\* a product with a promotional price was added from padded text, and a
\* second submit of its barcode, padded, was refused with the form kept
C12_Witness ==
    /\ Len(syncQueue) = 1
    /\ syncQueue[1].barcode = <<"7">>
    /\ syncQueue[1].name = <<"P">>
    /\ syncQueue[1].promotion_price = Defined(300)
    /\ manualProduct.barcode = <<" ", "7", " ">>
    /\ formError.text = "Produto com código de barras já está na fila."

\* C17: no two products of the sync queue have the same barcode, after any
\* sequence of manual adds, removals and file imports, a manual add made
\* while a file is being parsed included.
C17_DistinctBarcodes ==
    \A i, j \in 1..Len(syncQueue) :
        syncQueue[i].barcode = syncQueue[j].barcode => i = j

\* a processor output that is a product with a barcode
ValidOutput(o) == o # NullProduct /\ o.barcode # <<>>

\* rows whose output is valid and whose barcode no earlier valid row has
FirstOccurrences(data) ==
    {i \in 1..Len(data) :
        /\ ValidOutput(data[i])
        /\ \A j \in 1..(i - 1) :
               ValidOutput(data[j]) => data[j].barcode # data[i].barcode}

\* the elements of data at the positions of K from position i on, in order
RECURSIVE Pick(_, _, _)
Pick(data, K, i) ==
    IF i > Len(data) THEN <<>>
    ELSE (IF i \in K THEN <<data[i]>> ELSE <<>>) \o Pick(data, K, i + 1)

\* C18: processData resolves to the processor outputs that are products
\* with a non-empty barcode, only the first of each barcode, in input order;
\* no two of them share a barcode, and no valid row gives the empty list.
C18_FirstOccurrences ==
    pdDone =>
        /\ pdResult = Pick(pdData, FirstOccurrences(pdData), 1)
        /\ \A i, j \in 1..Len(pdResult) :
               pdResult[i].barcode = pdResult[j].barcode => i = j
        /\ (\A i \in 1..Len(pdData) : ~ValidOutput(pdData[i])) => pdResult = <<>>

\* a barcode repeated under two names and a second barcode were processed
C18_Witness ==
    /\ pdDone
    /\ pdData = <<MkProduct(<<"7">>, <<"Q">>), MkProduct(<<"7">>, <<"P">>),
                  MkProduct(<<"8">>, <<"P">>)>>
    /\ pdResult = <<MkProduct(<<"7">>, <<"Q">>), MkProduct(<<"8">>, <<"P">>)>>

\* C19: handleSync with an empty queue sets an error and calls no API; with
\* 'Carga Total' checked and the confirmation declined it calls no API and
\* changes nothing. api.syncProducts is called only with a queue that is not
\* empty and, under 'Carga Total', a confirmation. A rejection shows an
\* error, keeps the queue and isReset, leaves the modal open and sets
\* isSyncing to false. onSyncComplete is called once by the step in which a
\* call resolves and by no other; that step empties the queue, resets the
\* modal's state and calls onClose.
C19_SyncOutcome ==
    [][ /\ (\E answer \in {"accepted", "declined"} : HandleSync(answer))
           /\ syncQueue = <<>> =>
             /\ syncError' = "A fila de sincronização está vazia."
             /\ apiSyncCalls' = 0
             /\ syncing' = syncing
        /\ confirmAnswer' = "declined" =>
             /\ isReset
             /\ apiSyncCalls' = 0
             /\ syncCompleted' = 0
             /\ syncClosed' = 0
             /\ UNCHANGED <<isSyncModalOpen, syncQueue, isReset, isSyncing,
                            syncError, importMessage, isParsing, manualProduct,
                            formError, parsing, syncing>>
        /\ apiSyncCalls' = 1 =>
             /\ syncQueue # <<>>
             /\ isReset => confirmAnswer' = "accepted"
             /\ syncing' = Append(syncing, [queue |-> syncQueue, isReset |-> isReset])
             /\ isSyncing'
        /\ (\E i \in 1..Len(syncing), message \in SyncErrorMessages :
                SyncReject(i, message)) =>
             /\ syncError' # "null"
             /\ UNCHANGED <<syncQueue, isReset, isSyncModalOpen>>
             /\ ~isSyncing'
             /\ syncCompleted' = 0
             /\ syncClosed' = 0
        /\ syncCompleted' \in {0, 1}
        /\ (\E i \in 1..Len(syncing) : SyncResolve(i)) => syncCompleted' = 1
        /\ syncCompleted' = 1 =>
             /\ Len(syncing') = Len(syncing) - 1
             /\ syncClosed' = 1
             /\ ~isSyncModalOpen'
             /\ syncQueue' = <<>>
             /\ ~isReset'
             /\ ~isSyncing'
             /\ ~isParsing'
             /\ syncError' = "null"
             /\ importMessage' = NoMessage
             /\ manualProduct' = emptyManualProduct
      ]_vars

\* a call resolved: onSyncComplete and onClose were called by the last step
\* and the queue is empty
C19_Witness ==
    /\ syncCompleted = 1
    /\ syncClosed = 1
    /\ ~isSyncModalOpen
    /\ syncQueue = <<>>
    /\ syncing = <<>>

\* the digits of a text, counted
DigitCount(s) == Cardinality({i \in 1..Len(s) : s[i] \in DigitChars})

Blank(s) == \A i \in 1..Len(s) : s[i] = " "

\* what the page asks of the fields before it calls the API
FieldsValid ==
    IF isRegisterMode
    THEN /\ ~Blank(lpName) /\ ~Blank(lpEmail) /\ ~Blank(lpPassword)
         /\ ~Blank(passwordConfirmation)
         /\ DigitCount(cnpj) = 14
         /\ lpPassword = passwordConfirmation
    ELSE ~Blank(lpEmail) /\ ~Blank(lpPassword)

\* C20: a submit whose validation fails calls no API. A register submit
\* calls api.registerPortalUser first and api.login only in the step in
\* which the registration resolved; a login submit calls api.login. onLogin
\* is called only by the step in which api.login resolved, at most once per
\* submit; a rejection sets an error and calls neither; isLoading is true
\* exactly while a call of the submit is pending.
C20_SubmitOrder ==
    /\ [](lpSubmitLogins <= 1)
    /\ [](lpIsLoading <=> lpCall.stage # "none")
    /\ [][ /\ LoginHandleSubmit /\ ~FieldsValid =>
                /\ lpApiCall' = "none"
                /\ lpCall' = NoLoginCall
                /\ lpError' # "null"
                /\ lpLogins' = 0
           /\ lpApiCall' = "registerPortalUser" =>
                /\ isRegisterMode /\ FieldsValid
                /\ lpCall = NoLoginCall
                /\ lpCall'.stage = "register"
           /\ lpApiCall' = "login" =>
                /\ lpCall'.stage = "login"
                /\ \/ lpCall.stage = "register"
                   \/ lpCall = NoLoginCall /\ ~isRegisterMode /\ FieldsValid
           /\ lpCall'.stage = "login" /\ lpCall.stage # "login" => lpApiCall' = "login"
           /\ lpLogins' = 1 =>
                /\ lpCall.stage = "login"
                /\ lpCall' = NoLoginCall
                /\ lpApiCall' = "none"
           /\ lpLogins' \in {0, 1}
           /\ (\E message \in LoginErrorMessages : SubmitReject(message)) =>
                /\ lpError' # "null"
                /\ lpLogins' = 0
                /\ lpApiCall' = "none"
                /\ ~lpIsLoading'
         ]_vars

\* a registration with a complete CNPJ resolved, the login that followed
\* resolved and onLogin was called
C20_Witness ==
    /\ lpLogins = 1
    /\ lpSubmitLogins = 1
    /\ isRegisterMode
    /\ DigitCount(cnpj) = 14
    /\ lpPassword = passwordConfirmation
    /\ lpCall = NoLoginCall
    /\ ~lpIsLoading

\* C21: while api.getMe is pending the App shows the loading screen and
\* nothing else; the step in which it resolves sets the user and shows the
\* dashboard, the step in which it rejects leaves the user null and shows
\* the login page; the loading state ends and never returns. A logout
\* calls api.logout once, sets the user to null and shows the login page,
\* and api.logout is called by no other step.
C21_SessionCheck ==
    /\ [](getMePending => View = "loading" /\ ~lpMounted)
    /\ [](lpMounted <=> View = "login")
    /\ <>[](~appIsLoading)
    /\ [][ /\ (\E currentUser \in Users : GetMeResolve(currentUser)) =>
                /\ user' \in Users
                /\ View' = "dashboard"
           /\ (\E tokenCleared \in BOOLEAN : GetMeReject(tokenCleared)) =>
                /\ user' = "null"
                /\ View' = "login"
           /\ getMePending /\ ~getMePending' => ~appIsLoading'
           /\ HandleLogout =>
                /\ logoutCalls' = 1
                /\ user' = "null"
                /\ ~hasToken'
                /\ View' = "login"
           /\ logoutCalls' > logoutCalls => HandleLogout
         ]_vars

\* a logout has just been made: the login page is shown, without user or
\* token
C21_Witness ==
    /\ logoutCalls = 1
    /\ user = "null"
    /\ View = "login"
    /\ ~hasToken
    /\ ~getMePending

\* C22: with pairwise distinct ids in every api.getOrders response, the ids
\* of OrderList.orders are pairwise distinct in every reachable state, after
\* any interleaving of fetch responses, poll merges and status updates.
C22_DistinctOrderIds ==
    \A i, j \in DOMAIN orders : orders[i].id = orders[j].id => i = j

\* an order a poll had prepended was changed again by a later poll or
\* status update, with nothing left in flight
C22_Witness ==
    /\ Len(orders) = 1
    /\ orders[1].id \in newOrderIds
    /\ justUpdatedOrderId = orders[1].id
    /\ PollsIn(inflight) = 0
    /\ updatesInFlight = {}

====
